---- MODULE Spec2Model ----
(***************************************************************************)
(* C-LARA-2 annotation core: the resilient model client (chat_json with    *)
(* retries, backoff and heartbeat), the per-segment annotation coordinator *)
(* (generic_annotation with its positional merge) and the stage sequencing *)
(* of run_full_pipeline.                                                   *)
(*                                                                         *)
(* Python dicts are functions whose DOMAIN is the set of keys present.     *)
(* JSON null / None is the string Null for string-valued keys.  A map- or  *)
(* list-valued key that is None takes the same branches of the merge code  *)
(* as the empty map / list ("x or {}", "if updates:"), so those keys hold  *)
(* maps and lists only.                                                    *)
(***************************************************************************)
EXTENDS Integers, Sequences, FiniteSets, TLC

VARIABLES
    \* ---- merge of one segment (pipeline/generic_annotation.py) ----
    mpc,            \* "input" | "merged"
    mSegment,       \* the existing segment dict
    mResponse,      \* the response dict returned for it
    mMerged,        \* _merge_segment(mSegment, mResponse)
    \* ---- one chat_json call (core/ai_api.py) ----
    cpc,            \* "attempt" | "waiting" | "sleeping" | "returned" | "raised" | "cancelled" | "off"
    mode,           \* self._mode
    legacy_module,  \* "none" | "old" (version < 1.0.0) | "new"
    max_retries,    \* self.config.max_retries
    attempt,        \* local attempt
    backoff,        \* local backoff (seconds)
    sleeps,         \* the arguments of asyncio.sleep, in order
    events,         \* telemetry.event calls, in order
    outcomes,       \* outcome of every attempt so far, in order
    req,            \* request task of the current attempt: "none" | "pending" | "done"
    reqOutcome,     \* what the request task completed with
    reqStarts,      \* create_task calls made for the current attempt
    heartbeats,     \* telemetry.heartbeat calls of the current attempt
    lateBeats,      \* heartbeats emitted when the request was no longer pending
    switched,       \* number of async -> legacy switches made by this call
    result,         \* what chat_json returned or raised
    \* ---- one run of run_full_pipeline (pipeline/full_pipeline.py) ----
    ppc,            \* "start" | "pregen" | "stage" | "gathering" | "done" | "failed" | "cancelled" | "off"
    start_stage,    \* spec.start_stage
    end_stage,      \* spec.end_stage
    language,       \* spec.language
    raw_text,       \* local raw_text: a string or Null
    description,    \* spec.description: a string or Null
    current,        \* local current: a document or NoDoc
    stage,          \* index in PIPELINE_ORDER of the stage of the loop
    tasks,          \* every segment task created by the run, in creation order
    order,          \* tasks of the latest fan-out, in the order they completed
    gaStage,        \* stage of the latest generic_annotation call (0: none)
    gaInput,        \* spec.text of that call
    gaOutput,       \* what that call returned (NoDoc until it returns)
    mergedStages,   \* stages whose responses have been merged
    genCalls,       \* generate_text calls made by the run
    persist_intermediates, \* spec.persist_intermediates
    stage_dir,      \* TRUE when the run has made the directory stages/
    stage_files,    \* the files of stages/, by stage name
    stage_calls,          \* the stages entered by the run, in order
    error,          \* the message of the exception the run raised, or "none"
    \* ---- annotate_audio runs on one cache directory (pipeline/audio.py) ----
    runs,           \* the state of each annotate_audio run
    disk,           \* the files of cache_dir, by path
    synthLog,       \* the engine.synthesize_to_path calls of each run, in order
    validated,      \* keys for which a synthesis passed _validate_wav
    failures,       \* engine and I/O failures injected so far
    \* ---- one compile_html call (pipeline/compile_html.py) ----
    hpc,            \* "start" | "pages" | "concordance" | "returned" | "raised" | "off"
    hText,          \* spec.text
    hSources,       \* the audio files the document may name: "exists" | "locked" by path
    hFiles,         \* the files written under run_root, by path
    token_info,     \* local token_info
    concordance,    \* local concordance
    p_idx,          \* pages rendered so far
    c_idx,          \* concordance entries rendered so far
    \* ---- a run of the pipeline resumed from its stage files (projects/views.py) ----
    rpc,            \* "continuous" | "first" | "second" | "compared" | "off"
    plan,           \* the stage range, the stage of the split and the input
    run_results,    \* what each run returned, by run
    \* ---- the construction of a client (core/ai_api.py) ----
    install,        \* what OpenAIClient.__init__ finds installed and configured
    \* ---- one call of a stage function (pipeline/*.py) ----
    npc,            \* "called" | "returned" | "raised" | "off"
    nCall,          \* the stage, its input and the answer of the provider
    nReturned,      \* the document the stage function returned
    \* ---- compile_project (platform_server/projects/views.py) ----
    run_dirs,       \* the directories under runs/, oldest first: the files in stages/
    compiled_path,  \* the run project.compiled_path names; 0 when it is empty
    compiled        \* what the last compile_project request did

mergeVars == <<mpc, mSegment, mResponse, mMerged>>
chatVars == <<cpc, mode, legacy_module, max_retries, attempt, backoff, sleeps,
              events, outcomes, req, reqOutcome, reqStarts, heartbeats,
              lateBeats, switched, result>>
pipeVars == <<ppc, start_stage, end_stage, language, raw_text, description,
              current, stage, tasks, order, gaStage, gaInput, gaOutput,
              mergedStages, genCalls, persist_intermediates, stage_dir,
              stage_files, stage_calls, error>>
audioVars == <<runs, disk, synthLog, validated, failures>>
htmlVars == <<hpc, hText, hSources, hFiles, token_info, concordance, p_idx, c_idx>>
resumeVars == <<rpc, plan, run_results>>
clientVars == <<install>>
normVars == <<npc, nCall, nReturned>>
compileVars == <<run_dirs, compiled_path, compiled>>
outputVars == <<htmlVars, resumeVars, clientVars, normVars, compileVars>>
vars == <<mergeVars, chatVars, pipeVars, audioVars, outputVars>>

\* ------------------------------------------------------------------------
\* Bounds
\* ------------------------------------------------------------------------
MaxTokens == 2
MaxRetriesBound == 3
MaxHeartbeats == 2
MaxPages == 2
MaxSegments == 2
MaxFailures == 2

\* ------------------------------------------------------------------------
\* Python values
\* ------------------------------------------------------------------------
Null == "<None>"

EmptyDict == [k \in {} |-> Null]

Get(d, k, default) == IF k \in DOMAIN d THEN d[k] ELSE default

Put(d, k, v) == [x \in (DOMAIN d) \cup {k} |-> IF x = k THEN v ELSE d[x]]

Remove(d, k) == [x \in (DOMAIN d) \ {k} |-> d[x]]

Truthy(d) == DOMAIN d # {}

MaxOf(a, b) == IF a >= b THEN a ELSE b

\* keys whose values are maps or lists, never None in this model
ContainerKeys == {"annotations", "tokens"}

\* {k: v for k, v in token.items() if v is not None}
DropNone(d) ==
    LET keep == {k \in DOMAIN d : k \in ContainerKeys \/ d[k] # Null}
    IN [k \in keep |-> d[k]]

\* all dicts over a subset of keys with values in vals
Dicts(keys, vals) == UNION {[ks -> vals] : ks \in SUBSET keys}

\* sequences over S of length at most n
SeqUpTo(S, n) == UNION {[1..k -> S] : k \in 0..n}

\* ------------------------------------------------------------------------
\* pipeline/generic_annotation.py: the merge
\* ------------------------------------------------------------------------
\* a plausible slip: None values are copied like any other value
MergeAnnotationsCopyNone(base, updates) ==
    [k \in (DOMAIN base) \cup (DOMAIN updates) |->
        IF k \in DOMAIN updates THEN updates[k] ELSE base[k]]

MergeAnnotations(base, updates) ==
    LET set == {k \in DOMAIN updates : updates[k] # Null}
    IN [k \in (DOMAIN base) \cup set |->
            IF k \in set THEN updates[k] ELSE base[k]]

\* one iteration of the loop of _merge_tokens
MergeToken(base, update) ==
    LET withSurface ==
            IF Truthy(update)
            THEN Put(base, "surface",
                     Get(update, "surface", Get(base, "surface", "")))
            ELSE base
        extra == IF Truthy(update)
                 THEN {k \in (DOMAIN update) \ {"annotations", "surface"} :
                            update[k] # Null}
                 ELSE {}
        token == [k \in (DOMAIN withSurface) \cup extra |->
                    IF k \in extra THEN update[k] ELSE withSurface[k]]
        annotations == MergeAnnotations(Get(base, "annotations", EmptyDict),
                                        Get(update, "annotations", EmptyDict))
        annotated ==
            IF Truthy(annotations)
            THEN Put(token, "annotations", annotations)
            ELSE IF "annotations" \in DOMAIN token /\ ~Truthy(token["annotations"])
                 THEN Remove(token, "annotations")
                 ELSE token
    IN DropNone(annotated)

\* a plausible slip: zip(base_tokens, response_tokens) stops at the shorter list
MergeTokensZipShortest(base_tokens, response_tokens) ==
    LET min_len == IF Len(base_tokens) <= Len(response_tokens)
                   THEN Len(base_tokens) ELSE Len(response_tokens)
    IN [idx \in 1..min_len |-> MergeToken(base_tokens[idx], response_tokens[idx])]

MergeTokens(base_tokens, response_tokens) ==
    IF Len(base_tokens) = 0 /\ Len(response_tokens) = 0
    THEN <<>>
    ELSE LET max_len == MaxOf(Len(base_tokens), Len(response_tokens))
         IN [idx \in 1..max_len |->
                MergeToken(IF idx <= Len(base_tokens) THEN base_tokens[idx] ELSE EmptyDict,
                           IF idx <= Len(response_tokens) THEN response_tokens[idx] ELSE EmptyDict)]

MergeSegment(segment, response) ==
    LET annotations == MergeAnnotations(Get(segment, "annotations", EmptyDict),
                                        Get(response, "annotations", EmptyDict))
        m1 == IF Truthy(annotations) THEN Put(segment, "annotations", annotations)
              ELSE segment
        tokens == MergeTokens(Get(segment, "tokens", <<>>), Get(response, "tokens", <<>>))
        m2 == IF Len(tokens) > 0 THEN Put(m1, "tokens", tokens) ELSE m1
        other == {k \in (DOMAIN response) \ {"annotations", "tokens"} : response[k] # Null}
    IN [k \in (DOMAIN m2) \cup other |-> IF k \in other THEN response[k] ELSE m2[k]]

\* ---- inputs of the merge ----
AnnKeys == {"lemma", "gloss"}
BaseAnnotations == Dicts(AnnKeys, {"a"})
ResponseAnnotations == Dicts(AnnKeys, {"b", Null})

BaseTokens ==
    {[surface |-> "x"], [surface |-> "y", annotations |-> EmptyDict],
     [surface |-> "y", pos |-> Null],
     [surface |-> "x", annotations |-> [lemma |-> "a"]],
     [surface |-> "x", annotations |-> [lemma |-> "a", gloss |-> "a"]]}

ResponseTokens ==
    {EmptyDict, [surface |-> "z"], [surface |-> Null],
     [pos |-> "N"], [annotations |-> EmptyDict]}
    \cup {[surface |-> "x", annotations |-> a] :
            a \in {[lemma |-> Null], [gloss |-> "b"],
                   [lemma |-> "b", gloss |-> Null]}}

\* a segment after stage mwe: two tokens of one multi-word expression
MweSegment ==
    [surface |-> "s",
     tokens |-> <<[surface |-> "x", annotations |-> [mwe_id |-> "m1"]],
                  [surface |-> "y", annotations |-> [mwe_id |-> "m1"]]>>]

\* answers of the model to the lemma prompt for that segment
MweResponses ==
    {[tokens |-> <<[surface |-> "x", annotations |-> [lemma |-> l1]],
                   [surface |-> "y", annotations |-> [lemma |-> l2]]>>] :
        l1 \in {"b"}, l2 \in {"b", "c"}}

BaseSegments ==
    {MweSegment} \cup
    {Put(s, "tokens", t) :
        s \in {[surface |-> "s"]}
              \cup {[surface |-> "s", annotations |-> a] : a \in BaseAnnotations},
        t \in SeqUpTo(BaseTokens, MaxTokens)}
    \cup {[surface |-> "s"]}

ResponseSegments ==
    MweResponses \cup
    LET heads == {EmptyDict, [surface |-> "s"], [surface |-> "t"], [surface |-> Null]}
                 \cup {[surface |-> "s", annotations |-> a] :
                        a \in {[lemma |-> "b"], [lemma |-> Null], [gloss |-> "b"]}}
    IN heads \cup {Put(h, "tokens", t) : h \in {EmptyDict, [surface |-> "s"]},
                                        t \in SeqUpTo(ResponseTokens, MaxTokens)}


\* ------------------------------------------------------------------------
\* core/ai_api.py: OpenAIClient.chat_json and _run_with_heartbeat
\* ------------------------------------------------------------------------
\* isinstance matches of "except (RateLimitError, APIError, httpx.TimeoutException)"
TransientErrors == {"RateLimitError", "APIError", "TimeoutException"}

\* classes matched by name in "except Exception" (test fakes)
NamedTransientErrors == {"NamedRateLimitError"}

ErrorKinds == TransientErrors \cup NamedTransientErrors
              \cup {"ImportError", "LengthFinishReasonError",
                    "asyncio.TimeoutError", "JSONDecodeError", "OtherError"}

\* a completed request: a JSON body, a body that is not JSON, or an exception
RequestOutcomes == {"json", "non_json"} \cup ErrorKinds

\* _legacy_api_supported(self._legacy_module): version < 1.0.0
LegacyApiSupported(module) == module = "old"

\* self._legacy_available, set in __init__
LegacyAvailable == legacy_module # "none" /\ LegacyApiSupported(legacy_module)

Event(level, msg, n) == <<level, msg, n>>

Outcome(status, kind, at) == [status |-> status, kind |-> kind, at |-> at]

\* a plausible slip: the retry test allows two attempts more
RetriesExhaustedTwoLate(att, limit) == att >= limit + 2

\* a plausible slip: ">" for ">=" in the retry test
RetriesExhaustedOffByOne(att, limit) == att > limit

\* "if attempt >= self.config.max_retries"
RetriesExhausted(att, limit) == att >= limit

\* a plausible slip: the doubling is lost
NextBackoffConstant(b) == b

\* "backoff *= 2"
NextBackoff(b) == b * 2

\* wait_for(asyncio.shield(task), timeout): the timeout cancels the shield's
\* outer future only; the task keeps its state
AfterHeartbeatTimeout(state) == state

\* a plausible slip: every exception of the request is retried
IsTransientIncludingUnexpected(o) ==
    o \in TransientErrors \cup NamedTransientErrors \cup {"OtherError", "asyncio.TimeoutError"}

\* a plausible slip: a body that is not JSON is retried like a transient error
IsTransientIncludingBadJson(o) == o \in TransientErrors \cup NamedTransientErrors \cup {"non_json"}

\* the two retry branches of chat_json
IsTransient(o) == o \in TransientErrors \cup NamedTransientErrors

\* the except clauses of chat_json, for the outcome o of attempt att;
\* evs is the telemetry so far
Handle(o, att, evs) ==
    /\ outcomes' = Append(outcomes, o)
    /\ CASE o = "json" ->
              /\ cpc' = "returned"
              /\ result' = Outcome("returned", "json", att)
              /\ events' = evs
              /\ UNCHANGED <<mode, sleeps, switched>>
         [] IsTransient(o) ->
              IF RetriesExhausted(att, max_retries)
              THEN /\ cpc' = "raised"
                   /\ result' = Outcome("raised", o, att)
                   /\ events' = Append(evs, Event("error", "openai call failed", att))
                   /\ UNCHANGED <<mode, sleeps, switched>>
              ELSE /\ cpc' = "sleeping"
                   /\ sleeps' = Append(sleeps, backoff)
                   /\ events' = Append(evs, Event("warn", "openai retry", att))
                   /\ UNCHANGED <<mode, switched, result>>
         [] o = "non_json" ->
              /\ cpc' = "raised"
              /\ result' = Outcome("raised", "ValueError", att)
              /\ events' = Append(evs, Event("error", "invalid JSON response", att))
              /\ UNCHANGED <<mode, sleeps, switched>>
         \* the request itself raised json.JSONDecodeError: "payload" is not
         \* bound when the handler builds the data of its event
         [] o = "JSONDecodeError" ->
              /\ cpc' = "raised"
              /\ result' = Outcome("raised", "UnboundLocalError", att)
              /\ events' = evs
              /\ UNCHANGED <<mode, sleeps, switched>>
         [] o = "ImportError" ->
              IF legacy_module # "none" /\ mode = "async" /\ LegacyApiSupported(legacy_module)
              THEN /\ mode' = "legacy"
                   /\ switched' = switched + 1
                   /\ cpc' = "attempt"
                   /\ events' = Append(evs, Event("warn", "falling back to legacy OpenAI client", att))
                   /\ UNCHANGED <<sleeps, result>>
              ELSE /\ cpc' = "raised"
                   /\ result' = Outcome("raised", "ImportError", att)
                   /\ events' = Append(evs, Event("error", "openai import failure", att))
                   /\ UNCHANGED <<mode, sleeps, switched>>
         [] o = "LengthFinishReasonError" ->
              IF LegacyAvailable /\ mode = "async"
              THEN /\ mode' = "legacy"
                   /\ switched' = switched + 1
                   /\ cpc' = "attempt"
                   /\ events' = Append(evs, Event("warn", "falling back to legacy OpenAI client", att))
                   /\ UNCHANGED <<sleeps, result>>
              ELSE /\ cpc' = "raised"
                   /\ result' = Outcome("raised", "ImportError", att)
                   /\ events' = Append(evs, Event("error", "LengthFinishReasonError with no legacy fallback", att))
                   /\ UNCHANGED <<mode, sleeps, switched>>
         [] OTHER ->
              /\ cpc' = "raised"
              /\ result' = Outcome("raised", o, att)
              /\ events' = Append(evs, Event("error", "unexpected failure", att))
              /\ UNCHANGED <<mode, sleeps, switched>>

AttemptEvent == Event("info", "openai.chat attempt", attempt + 1)

\* top of the loop: attempt += 1, the attempt event, _build_request, and
\* create_task in _run_with_heartbeat
StartAttempt ==
    /\ cpc = "attempt"
    /\ attempt' = attempt + 1
    /\ events' = Append(events, AttemptEvent)
    /\ req' = "pending"
    /\ reqOutcome' = "none"
    /\ reqStarts' = 1
    /\ heartbeats' = 0
    /\ cpc' = "waiting"
    /\ UNCHANGED <<mode, legacy_module, max_retries, backoff, sleeps, outcomes,
                   lateBeats, switched, result, mergeVars, pipeVars, audioVars, outputVars>>

\* _build_request raises before any task exists: completions.create of the
\* async or injected client raises synchronously
BuildRaises(o) ==
    /\ cpc = "attempt"
    /\ mode \in {"async", "custom"}
    /\ attempt' = attempt + 1
    /\ req' = "none"
    /\ reqOutcome' = "none"
    /\ reqStarts' = 0
    /\ heartbeats' = 0
    /\ Handle(o, attempt + 1, Append(events, AttemptEvent))
    /\ UNCHANGED <<legacy_module, max_retries, backoff, lateBeats, mergeVars, pipeVars, audioVars, outputVars>>

\* the provider answers or fails: the request task completes
RequestCompletes(o) ==
    /\ req = "pending"
    /\ req' = "done"
    /\ reqOutcome' = o
    /\ UNCHANGED <<cpc, mode, legacy_module, max_retries, attempt, backoff, sleeps,
                   events, outcomes, reqStarts, heartbeats, lateBeats, switched,
                   result, mergeVars, pipeVars, audioVars, outputVars>>

\* wait_for times out after heartbeat_s while the task is pending
HeartbeatTimeout ==
    /\ cpc = "waiting"
    /\ req = "pending"
    /\ heartbeats < MaxHeartbeats
    /\ heartbeats' = heartbeats + 1
    /\ req' = AfterHeartbeatTimeout(req)
    /\ reqOutcome' = IF req' = "cancelled" THEN "CancelledError" ELSE reqOutcome
    /\ UNCHANGED <<cpc, mode, legacy_module, max_retries, attempt, backoff, sleeps,
                   events, outcomes, reqStarts, lateBeats, switched, result, mergeVars, pipeVars, audioVars, outputVars>>

\* the task is done: wait_for returns its result or raises its exception.
\* An asyncio.TimeoutError raised by the request itself is caught by the
\* "except asyncio.TimeoutError" of the heartbeat loop, which emits a
\* heartbeat and leaves the loop; "return await task" then yields the
\* request's outcome to chat_json.
Observe ==
    /\ cpc = "waiting"
    /\ req \in {"done", "cancelled"}
    /\ LET late == IF reqOutcome = "asyncio.TimeoutError" THEN 1 ELSE 0
       IN /\ heartbeats' = heartbeats + late
          /\ lateBeats' = lateBeats + late
    /\ Handle(reqOutcome, attempt, events)
    /\ UNCHANGED <<legacy_module, max_retries, attempt, backoff, req, reqOutcome,
                   reqStarts, mergeVars, pipeVars, audioVars, outputVars>>

\* asyncio.sleep(backoff) returns; backoff *= 2
SleepDone ==
    /\ cpc = "sleeping"
    /\ backoff' = NextBackoff(backoff)
    /\ cpc' = "attempt"
    /\ UNCHANGED <<mode, legacy_module, max_retries, attempt, sleeps, events,
                   outcomes, req, reqOutcome, reqStarts, heartbeats, lateBeats,
                   switched, result, mergeVars, pipeVars, audioVars, outputVars>>

\* the caller cancels the chat_json task at one of its awaits.  In
\* _run_with_heartbeat the CancelledError cancels the shield's outer future;
\* the request task is never cancelled by it.
CancelCall ==
    /\ cpc \in {"waiting", "sleeping"}
    /\ cpc' = "cancelled"
    /\ result' = Outcome("cancelled", "CancelledError", attempt)
    /\ UNCHANGED <<mode, legacy_module, max_retries, attempt, backoff, sleeps,
                   events, outcomes, req, reqOutcome, reqStarts, heartbeats,
                   lateBeats, switched, mergeVars, pipeVars, audioVars, outputVars>>

\* ------------------------------------------------------------------------
\* pipeline/full_pipeline.py and pipeline/generic_annotation.py: one run
\* ------------------------------------------------------------------------
PIPELINE_ORDER ==
    <<"text_gen", "segmentation_phase_1", "segmentation_phase_2", "translation",
      "mwe", "lemma", "gloss", "pinyin", "audio", "compile_html">>

StageNames == {PIPELINE_ORDER[i] : i \in 1..Len(PIPELINE_ORDER)}

\* PIPELINE_ORDER.index(name)
IndexOf(name) == CHOOSE i \in 1..Len(PIPELINE_ORDER) : PIPELINE_ORDER[i] = name

\* text_obj / current is None
NoDoc == [none |-> TRUE]

\* spec.language.lower().startswith("zh")
IsZh(lang) == lang = "zh"

\* ---- documents ----
PageName == <<"P1", "P2", "P3", "P4">>

SegName == << <<"s11", "s12", "s13", "s14">>, <<"s21", "s22", "s23", "s24">>,
              <<"s31", "s32", "s33", "s34">>, <<"s41", "s42", "s43", "s44">> >>

RECURSIVE SumSeq(_)
SumSeq(q) == IF Len(q) = 0 THEN 0 ELSE q[1] + SumSeq(Tail(q))

\* number of segments of each page
Shapes == {sh \in SeqUpTo(0..MaxSegments, MaxPages) : SumSeq(sh) <= MaxSegments}

PageOf(p, n) ==
    [surface |-> PageName[p],
     segments |-> [s \in 1..n |-> [surface |-> SegName[p][s]]],
     annotations |-> EmptyDict]

PagesOf(sh) == [p \in 1..Len(sh) |-> PageOf(p, sh[p])]

DocOf(sh) == [l2 |-> "en", surface |-> "T", pages |-> PagesOf(sh), annotations |-> EmptyDict]

PipeDocs == {DocOf(sh) : sh \in Shapes}

PagesIn(doc) == Get(doc, "pages", <<>>)

SegmentsIn(page) == Get(page, "segments", <<>>)

SegAt(doc, p, s) == SegmentsIn(PagesIn(doc)[p])[s]

\* what the provider may answer to a segment prompt
SegResponses ==
    {[annotations |-> [lemma |-> "b"]],
     [surface |-> "t", tokens |-> <<[surface |-> "z"]>>]}

\* what the provider may answer to the segmentation_phase_1 prompt
Seg1Responses == {[pages |-> PagesOf(sh)] : sh \in Shapes} \cup {EmptyDict}

\* ---- generic_annotation ----
\* the fields of the dataclass GenericAnnotationSpec
SpecFields == {"text", "language", "operation", "build_prompt", "telemetry", "op_id"}

\* the keyword arguments with which a stage constructs its GenericAnnotationSpec
StageKwargs(name) ==
    SpecFields \cup (IF name \in {"translation", "gloss"} THEN {"max_concurrency"} ELSE {})

\* max_concurrency=8 in translate and annotate_gloss
ConcurrencyLimit == 8

\* the dataclass __init__ raises TypeError on an unexpected keyword
SpecConstructs(name) == StageKwargs(name) \subseteq SpecFields

AnnotationStages == {"segmentation_phase_2", "translation", "mwe", "lemma", "gloss"}

\* gloss._simplify_segment
SimplifySegment(segment) ==
    LET tok(t) ==
            LET mwe == Get(Get(t, "annotations", EmptyDict), "mwe_id", Null)
                base == [surface |-> Get(t, "surface", "")]
            IN IF mwe # Null THEN Put(base, "annotations", [mwe_id |-> mwe]) ELSE base
        tokens == Get(segment, "tokens", <<>>)
        segAnn == Get(segment, "annotations", EmptyDict)
        kept == {k \in {"translation", "mwes"} : Get(segAnn, k, Null) # Null}
        simplified == [surface |-> Get(segment, "surface", ""),
                       tokens |-> [i \in 1..Len(tokens) |-> tok(tokens[i])]]
    IN IF kept # {} THEN Put(simplified, "annotations", [k \in kept |-> segAnn[k]])
       ELSE simplified

\* the build closure of each stage: the stage and the part of the segment
\* embedded in the prompt
BuildPrompt(name, segment) ==
    [operation |-> name,
     content |-> CASE name \in {"segmentation_phase_2", "translation"} ->
                        [surface |-> Get(segment, "surface", "")]
                   [] name = "gloss" -> SimplifySegment(segment)
                   [] OTHER -> segment]

RECURSIVE PairsUpTo(_, _)
PairsUpTo(pages, k) ==
    IF k = 0 THEN <<>>
    ELSE PairsUpTo(pages, k - 1)
         \o [s \in 1..Len(SegmentsIn(pages[k])) |-> <<k, s>>]

\* a plausible slip: only the first page is enumerated
TaskIndexFirstPageOnly(doc) ==
    PairsUpTo(PagesIn(doc), IF Len(PagesIn(doc)) > 0 THEN 1 ELSE 0)

\* the list index: one (page_idx, seg_idx) per segment, pages then segments
TaskIndex(doc) == PairsUpTo(PagesIn(doc), Len(PagesIn(doc)))

NewTask(st, pair, prompt) ==
    [stage |-> st, page |-> pair[1], seg |-> pair[2], prompt |-> prompt,
     state |-> "created", req |-> "none", resp |-> EmptyDict]

\* a plausible slip: results are taken in completion order (as_completed)
GatherResponsesAsCompleted(ts, ord) ==
    [i \in 1..Len(ts) |-> IF i <= Len(ord) THEN ts[ord[i]].resp ELSE ts[i].resp]

\* asyncio.gather(*tasks): the results in the order of the tasks
GatherResponses(ts, ord) == [i \in 1..Len(ts) |-> ts[i].resp]

\* a plausible slip: the wait ends with the first completed task
GatherDoneOnFirst(ts) == \E i \in 1..Len(ts) : ts[i].state = "returned"

\* the gather future completes when every task has returned
GatherDone(ts) == \A i \in 1..Len(ts) : ts[i].state = "returned"

\* results[idx] = response for idx, response in zip(index, responses)
ResultsOf(index, responses) ==
    [pr \in {index[i] : i \in 1..Len(index)} |->
        responses[CHOOSE i \in 1..Len(index) :
                    /\ index[i] = pr
                    /\ \A j \in 1..Len(index) : index[j] = pr => j <= i]]

\* normalized = {l2, l1, title, surface, pages, annotations} without the
\* entries that are None: the return value of the annotation stages
Normalized(doc, lang, new_pages) ==
    LET normalized ==
            [l2 |-> Get(doc, "l2", lang),
             l1 |-> Get(doc, "l1", Null),
             title |-> Get(doc, "title", Null),
             surface |-> Get(doc, "surface", ""),
             pages |-> new_pages,
             annotations |-> Get(doc, "annotations", EmptyDict)]
        keep == {k \in DOMAIN normalized :
                    CASE k = "pages" -> TRUE
                      [] k = "annotations" -> normalized[k] # NoDoc
                      [] OTHER -> normalized[k] # Null}
    IN [k \in keep |-> normalized[k]]

\* new_pages.append({surface, segments: new_segments, annotations})
NewPage(page, new_segments) ==
    [surface |-> Get(page, "surface", ""),
     segments |-> new_segments,
     annotations |-> Get(page, "annotations", EmptyDict)]

\* the rebuild of the tree with the merged segments
Annotated(doc, lang, results) ==
    LET pages == PagesIn(doc)
        new_segments(p) ==
            [s \in 1..Len(SegmentsIn(pages[p])) |->
                MergeSegment(SegmentsIn(pages[p])[s], Get(results, <<p, s>>, EmptyDict))]
    IN Normalized(doc, lang, [p \in 1..Len(pages) |-> NewPage(pages[p], new_segments(p))])

\* segmentation._normalize_response
NormalizeSeg1(response, text, lang) ==
    LET normalized ==
            [l2 |-> IF Get(response, "l2", Null) \notin {Null, ""} THEN response["l2"] ELSE lang,
             l1 |-> Get(response, "l1", Null),
             title |-> Get(response, "title", Null),
             surface |-> IF Get(response, "surface", Null) \notin {Null, ""}
                         THEN response["surface"] ELSE text,
             pages |-> Get(response, "pages", <<>>),
             annotations |-> IF Get(response, "annotations", NoDoc) = NoDoc
                             THEN EmptyDict ELSE response["annotations"]]
        keep == {k \in DOMAIN normalized :
                    k \in {"pages", "annotations"} \/ normalized[k] # Null}
    IN [k \in keep |-> normalized[k]]

\* _cut_preserve_whitespace on a surface without whitespace that jieba
\* keeps as one word
JiebaTokens(surface) == IF surface = "" THEN <<>> ELSE <<[surface |-> surface]>>

\* segmentation._tokenize_with_jieba
TokenizedWithJieba(doc, lang) ==
    LET pages == PagesIn(doc)
        merged(segment) ==
            LET tokens == JiebaTokens(Get(segment, "surface", ""))
            IN IF Len(tokens) > 0 THEN Put(segment, "tokens", tokens) ELSE segment
        new_segments(p) ==
            [s \in 1..Len(SegmentsIn(pages[p])) |-> merged(SegmentsIn(pages[p])[s])]
    IN Normalized(doc, lang, [p \in 1..Len(pages) |-> NewPage(pages[p], new_segments(p))])

\* pinyin.annotate_pinyin; the surfaces of the model are lexical, and the
\* transcription pypinyin gives is one string per surface
PinyinAnnotated(doc, lang) ==
    LET pages == PagesIn(doc)
        token_copy(token) ==
            Put(token, "annotations",
                Put(Get(token, "annotations", EmptyDict), "pinyin", "py"))
        new_segment(segment) ==
            [surface |-> Get(segment, "surface", ""),
             tokens |-> [i \in 1..Len(Get(segment, "tokens", <<>>)) |->
                           token_copy(segment["tokens"][i])],
             annotations |-> Get(segment, "annotations", EmptyDict)]
        new_segments(p) ==
            [s \in 1..Len(SegmentsIn(pages[p])) |-> new_segment(SegmentsIn(pages[p])[s])]
    IN Normalized(doc, lang, [p \in 1..Len(pages) |-> NewPage(pages[p], new_segments(p))])

\* ---- the tasks of the latest generic_annotation call ----
LocalCount == Cardinality({i \in 1..Len(tasks) : tasks[i].stage = gaStage})

LocalOffset == Len(tasks) - LocalCount

LocalTasks == [i \in 1..LocalCount |-> tasks[LocalOffset + i]]

LocalOrder ==
    LET sel == SelectSeq(order, LAMBDA i : i > LocalOffset)
    IN [k \in 1..Len(sel) |-> sel[k] - LocalOffset]

\* ---- run_full_pipeline ----
StageName == PIPELINE_ORDER[stage]

\* the messages of the ValueError raised by the checks of the stage range
RangeErrors ==
    {"Unknown start stage", "Unknown end stage", "start_stage must come before end_stage"}

\* the messages of the ValueError raised for a missing input
InputErrors ==
    {"text, text_obj, or description must be provided",
     "text_obj is required when starting after segmentation_phase_1",
     "segmentation_phase_1 requires a raw text string"}

\* any exception that leaves a stage function
StageError == "stage call raised"

\* a plausible slip: a run of one stage is rejected
StartNotBeforeEnd(start_index, end_index) == start_index >= end_index

\* "if start_index > end_index"
StartAfterEnd(start_index, end_index) == start_index > end_index

\* what generate_text returns
GeneratedText == [surface |-> "G"]

\* what compile_html returns
HtmlResult == [html_path |-> "page_1.html"]

\* json.dumps(payload, ensure_ascii=False, indent=2): the text of the file;
\* a key that is not a string is written as a string
JsonKey(k) == IF k = "<1>" THEN "1" ELSE k

JsonObject(d) ==
    [k \in {JsonKey(x) : x \in DOMAIN d} |-> d[CHOOSE x \in DOMAIN d : JsonKey(x) = k]]

\* the keys of the document and of its annotations
JsonDocument(d) ==
    LET top == JsonObject(d)
    IN [k \in DOMAIN top |-> IF k = "annotations" THEN JsonObject(top[k]) ELSE top[k]]

JsonDumps(payload) == [json |-> JsonDocument(payload)]

\* json.loads(path.read_text(encoding="utf-8"))
JsonLoads(file) == file.json

\* _persist(stage, payload): nothing without stage_dir; the file system takes
\* every write (the except branch is not entered)
Persist(name, payload) ==
    stage_files' = IF stage_dir THEN Put(stage_files, name, JsonDumps(payload))
                   ELSE stage_files

\* a branch of the stage loop, or the generation before the loop, is
\* entered with an input; ran tells that the stage function was called, and
\* the output is NoDoc until it returns
Entered(name, input, output, ran) ==
    stage_calls' = Append(stage_calls, [stage |-> name, input |-> input, output |-> output, ran |-> ran])

\* the loop moves to the next stage of PIPELINE_ORDER[start_index : end_index + 1]
Advance ==
    IF stage = IndexOf(end_stage)
    THEN ppc' = "done" /\ stage' = stage
    ELSE ppc' = "stage" /\ stage' = stage + 1

\* "if current is None and start_index > PIPELINE_ORDER.index('segmentation_phase_1')",
\* then the loop
EnterLoop(doc) ==
    IF doc = NoDoc /\ IndexOf(start_stage) > IndexOf("segmentation_phase_1")
    THEN /\ ppc' = "failed" /\ stage' = stage
         /\ error' = "text_obj is required when starting after segmentation_phase_1"
    ELSE /\ ppc' = "stage" /\ stage' = IndexOf(start_stage)
         /\ error' = error

\* the checks of run_full_pipeline up to its first await
Validate ==
    /\ ppc = "start"
    /\ IF start_stage \notin StageNames
       THEN /\ ppc' = "failed" /\ error' = "Unknown start stage"
            /\ UNCHANGED <<stage, stage_dir>>
       ELSE IF end_stage \notin StageNames
       THEN /\ ppc' = "failed" /\ error' = "Unknown end stage"
            /\ UNCHANGED <<stage, stage_dir>>
       ELSE IF StartAfterEnd(IndexOf(start_stage), IndexOf(end_stage))
       THEN /\ ppc' = "failed" /\ error' = "start_stage must come before end_stage"
            /\ UNCHANGED <<stage, stage_dir>>
       ELSE /\ stage_dir' = persist_intermediates
            /\ IF raw_text = Null /\ current = NoDoc
               THEN IF description # Null
                    THEN ppc' = "pregen" /\ UNCHANGED <<stage, error>>
                    ELSE /\ ppc' = "failed" /\ stage' = stage
                         /\ error' = "text, text_obj, or description must be provided"
               ELSE EnterLoop(current)
    /\ UNCHANGED <<start_stage, end_stage, language, persist_intermediates, raw_text,
                   description, current, tasks, order, gaStage, gaInput, gaOutput,
                   mergedStages, genCalls, stage_files, stage_calls,
                   mergeVars, chatVars, audioVars, outputVars>>

\* "generated = await generate_text(...)" before the loop
PreGenerate(ok) ==
    /\ ppc = "pregen"
    /\ genCalls' = genCalls + 1
    /\ Entered("text_gen", [description |-> description],
               IF ok THEN GeneratedText ELSE NoDoc, TRUE)
    /\ IF ok
       THEN /\ raw_text' = GeneratedText.surface
            /\ Persist("text_gen", GeneratedText)
            /\ EnterLoop(current)
       ELSE /\ ppc' = "failed" /\ error' = StageError
            /\ UNCHANGED <<raw_text, stage, stage_files>>
    /\ UNCHANGED <<start_stage, end_stage, language, persist_intermediates, description,
                   current, tasks, order, gaStage, gaInput, gaOutput, mergedStages,
                   stage_dir, mergeVars, chatVars, audioVars, outputVars>>

\* stage text_gen of the loop
StageTextGen(ok) ==
    /\ ppc = "stage" /\ StageName = "text_gen"
    /\ IF current = NoDoc
       THEN /\ genCalls' = genCalls + 1
            /\ Entered("text_gen", [description |-> description],
                       IF ok THEN GeneratedText ELSE NoDoc, TRUE)
            /\ IF ok THEN /\ raw_text' = GeneratedText.surface
                          /\ Persist("text_gen", GeneratedText)
                          /\ Advance
                          /\ error' = error
                     ELSE /\ ppc' = "failed" /\ error' = StageError
                          /\ UNCHANGED <<raw_text, stage, stage_files>>
       ELSE /\ ok
            /\ Entered("text_gen", current, current, FALSE)
            /\ Advance
            /\ UNCHANGED <<raw_text, genCalls, stage_files, error>>
    /\ UNCHANGED <<start_stage, end_stage, language, persist_intermediates, description,
                   current, tasks, order, gaStage, gaInput, gaOutput, mergedStages,
                   stage_dir, mergeVars, chatVars, audioVars, outputVars>>

\* stage segmentation_phase_1: one chat_json call for the whole text
StageSegmentation1(ok, response) ==
    /\ ppc = "stage" /\ StageName = "segmentation_phase_1"
    /\ IF raw_text = Null
       THEN /\ ~ok
            /\ ppc' = "failed"
            /\ error' = "segmentation_phase_1 requires a raw text string"
            /\ UNCHANGED <<current, stage, stage_files, stage_calls>>
       ELSE IF ~ok
       THEN /\ ppc' = "failed" /\ error' = StageError
            /\ Entered("segmentation_phase_1", [surface |-> raw_text], NoDoc, TRUE)
            /\ UNCHANGED <<current, stage, stage_files>>
       ELSE /\ current' = NormalizeSeg1(response, raw_text, language)
            /\ Entered("segmentation_phase_1", [surface |-> raw_text], current', TRUE)
            /\ Persist("segmentation_phase_1", current')
            /\ Advance
            /\ error' = error
    /\ UNCHANGED <<start_stage, end_stage, language, persist_intermediates, raw_text,
                   description, tasks, order, gaStage, gaInput, gaOutput, mergedStages,
                   genCalls, stage_dir, mergeVars, chatVars, audioVars, outputVars>>

\* stage segmentation_phase_2 for Mandarin: jieba, no model call
StageJieba(ok) ==
    /\ ppc = "stage" /\ StageName = "segmentation_phase_2" /\ IsZh(language)
    /\ IF ok
       THEN /\ current' = TokenizedWithJieba(current, language)
            /\ Entered(StageName, current, current', TRUE)
            /\ Persist(StageName, current')
            /\ Advance
            /\ error' = error
       ELSE /\ ppc' = "failed" /\ error' = StageError
            /\ Entered(StageName, current, NoDoc, TRUE)
            /\ UNCHANGED <<current, stage, stage_files>>
    /\ UNCHANGED <<start_stage, end_stage, language, persist_intermediates, raw_text,
                   description, tasks, order, gaStage, gaInput, gaOutput, mergedStages,
                   genCalls, stage_dir, mergeVars, chatVars, audioVars, outputVars>>

\* a stage whose GenericAnnotationSpec(...) call raises TypeError
StageSpecRejected ==
    /\ ppc = "stage" /\ StageName \in AnnotationStages
    /\ ~(StageName = "segmentation_phase_2" /\ IsZh(language))
    /\ ~SpecConstructs(StageName)
    /\ ppc' = "failed" /\ error' = StageError
    /\ Entered(StageName, current, NoDoc, TRUE)
    /\ UNCHANGED <<start_stage, end_stage, language, persist_intermediates, raw_text,
                   description, current, stage, tasks, order, gaStage, gaInput, gaOutput,
                   mergedStages, genCalls, stage_dir, stage_files,
                   mergeVars, chatVars, audioVars, outputVars>>

\* generic_annotation up to "await asyncio.gather(*tasks)": one task per
\* segment; without tasks the call merges and returns at once
StageFanOut ==
    /\ ppc = "stage" /\ StageName \in AnnotationStages
    /\ ~(StageName = "segmentation_phase_2" /\ IsZh(language))
    /\ SpecConstructs(StageName)
    /\ LET index == TaskIndex(current)
           new == [i \in 1..Len(index) |->
                     NewTask(stage, index[i],
                             BuildPrompt(StageName, SegAt(current, index[i][1], index[i][2])))]
       IN /\ gaStage' = stage
          /\ gaInput' = current
          /\ IF Len(index) = 0
             THEN /\ gaOutput' = Annotated(current, language, EmptyDict)
                  /\ current' = gaOutput'
                  /\ mergedStages' = mergedStages \cup {stage}
                  /\ Persist(StageName, gaOutput')
                  /\ Advance
                  /\ UNCHANGED tasks
             ELSE /\ tasks' = tasks \o new
                  /\ gaOutput' = NoDoc
                  /\ ppc' = "gathering"
                  /\ UNCHANGED <<current, stage, mergedStages, stage_files>>
          /\ Entered(StageName, current, gaOutput', TRUE)
    /\ order' = <<>>
    /\ UNCHANGED <<start_stage, end_stage, language, persist_intermediates, raw_text,
                   description, genCalls, stage_dir, error,
                   mergeVars, chatVars, audioVars, outputVars>>

\* a created task gets to run: chat_json issues its request
TaskStart(i) ==
    /\ i \in 1..Len(tasks)
    /\ tasks[i].state = "created"
    /\ tasks' = [tasks EXCEPT ![i].state = "running", ![i].req = "running"]
    /\ UNCHANGED <<ppc, start_stage, end_stage, language, persist_intermediates, raw_text,
                   description, current, stage, order, gaStage, gaInput, gaOutput,
                   mergedStages, genCalls, stage_dir, stage_files, stage_calls, error,
                   mergeVars, chatVars, audioVars, outputVars>>

\* the chat_json call of a task returns the decoded response
TaskReturns(i, r) ==
    /\ i \in 1..Len(tasks)
    /\ tasks[i].state = "running"
    /\ tasks' = [tasks EXCEPT ![i].state = "returned", ![i].req = "finished", ![i].resp = r]
    /\ order' = Append(order, i)
    /\ UNCHANGED <<ppc, start_stage, end_stage, language, persist_intermediates, raw_text,
                   description, current, stage, gaStage, gaInput, gaOutput,
                   mergedStages, genCalls, stage_dir, stage_files, stage_calls, error,
                   mergeVars, chatVars, audioVars, outputVars>>

\* the chat_json call of a task raises (retries exhausted, bad JSON, ...)
TaskRaises(i) ==
    /\ i \in 1..Len(tasks)
    /\ tasks[i].state = "running"
    /\ tasks' = [tasks EXCEPT ![i].state = "raised", ![i].req = "finished"]
    /\ order' = Append(order, i)
    /\ UNCHANGED <<ppc, start_stage, end_stage, language, persist_intermediates, raw_text,
                   description, current, stage, gaStage, gaInput, gaOutput,
                   mergedStages, genCalls, stage_dir, stage_files, stage_calls, error,
                   mergeVars, chatVars, audioVars, outputVars>>

\* gather returns: zip, merge, normalized return, and the stage is over
GatherReturns ==
    /\ ppc = "gathering"
    /\ GatherDone(LocalTasks)
    /\ LET index == [i \in 1..LocalCount |-> <<LocalTasks[i].page, LocalTasks[i].seg>>]
           responses == GatherResponses(LocalTasks, LocalOrder)
       IN gaOutput' = Annotated(gaInput, language, ResultsOf(index, responses))
    /\ current' = gaOutput'
    /\ mergedStages' = mergedStages \cup {gaStage}
    /\ stage_calls' = [stage_calls EXCEPT ![Len(stage_calls)].output = gaOutput']
    /\ Persist(PIPELINE_ORDER[gaStage], gaOutput')
    /\ Advance
    /\ UNCHANGED <<start_stage, end_stage, language, persist_intermediates, raw_text,
                   description, tasks, order, gaStage, gaInput, genCalls, stage_dir, error,
                   mergeVars, chatVars, audioVars, outputVars>>

\* a plausible slip: a stage whose call failed is run again
OnStageFailureRetry == "stage"

\* no try/except around the stage calls: the exception leaves
\* generic_annotation, the stage function and run_full_pipeline
OnStageFailure == "failed"

\* gather raises the first exception of a task; the other tasks keep running
GatherRaises ==
    /\ ppc = "gathering"
    /\ \E i \in 1..LocalCount : LocalTasks[i].state = "raised"
    /\ ppc' = OnStageFailure
    /\ error' = StageError
    /\ UNCHANGED <<start_stage, end_stage, language, persist_intermediates, raw_text,
                   description, current, stage, tasks, order, gaStage, gaInput, gaOutput,
                   mergedStages, genCalls, stage_dir, stage_files, stage_calls,
                   mergeVars, chatVars, audioVars, outputVars>>

\* the caller cancels the run while it awaits gather: gather cancels every
\* task that is not done; a running task is cancelled inside
\* wait_for(asyncio.shield(task)), which leaves its request task running
CancelRun ==
    /\ ppc = "gathering"
    /\ ppc' = "cancelled"
    /\ tasks' = [i \in 1..Len(tasks) |->
                    IF tasks[i].state \in {"created", "running"}
                    THEN [tasks[i] EXCEPT !.state = "cancelled"]
                    ELSE tasks[i]]
    /\ UNCHANGED <<start_stage, end_stage, language, persist_intermediates, raw_text,
                   description, current, stage, order, gaStage, gaInput, gaOutput,
                   mergedStages, genCalls, stage_dir, stage_files, stage_calls, error,
                   mergeVars, chatVars, audioVars, outputVars>>

\* the request of a cancelled call runs to its end
OrphanRequestFinishes(i) ==
    /\ i \in 1..Len(tasks)
    /\ tasks[i].state = "cancelled"
    /\ tasks[i].req = "running"
    /\ tasks' = [tasks EXCEPT ![i].req = "finished"]
    /\ UNCHANGED <<ppc, start_stage, end_stage, language, persist_intermediates, raw_text,
                   description, current, stage, order, gaStage, gaInput, gaOutput,
                   mergedStages, genCalls, stage_dir, stage_files, stage_calls, error,
                   mergeVars, chatVars, audioVars, outputVars>>

\* stage pinyin: annotate_pinyin and _persist for Mandarin, nothing otherwise
StagePinyin(ok) ==
    /\ ppc = "stage" /\ StageName = "pinyin"
    /\ IF IsZh(language)
       THEN IF ok
            THEN /\ current' = PinyinAnnotated(current, language)
                 /\ Entered("pinyin", current, current', TRUE)
                 /\ Persist("pinyin", current')
                 /\ Advance
                 /\ error' = error
            ELSE /\ ppc' = "failed" /\ error' = StageError
                 /\ Entered("pinyin", current, NoDoc, TRUE)
                 /\ UNCHANGED <<current, stage, stage_files>>
       ELSE /\ ok
            /\ Entered("pinyin", current, current, FALSE)
            /\ Advance
            /\ UNCHANGED <<current, stage_files, error>>
    /\ UNCHANGED <<start_stage, end_stage, language, persist_intermediates, raw_text,
                   description, tasks, order, gaStage, gaInput, gaOutput, mergedStages,
                   genCalls, stage_dir, mergeVars, chatVars, audioVars, outputVars>>

\* stages audio and compile_html: no segment call; the tree they are given
\* is passed on (their own state is not part of this specification). The
\* audio stage builds AudioSpec(..., require_real_tts=...), a field AudioSpec
\* does not have: the constructor raises TypeError. compile_html returns
\* html_result, which is persisted; current stays
StageAudioOrHtml(ok) ==
    /\ ppc = "stage" /\ StageName \in {"audio", "compile_html"}
    /\ StageName = "audio" => ~ok
    /\ IF ok
       THEN /\ Entered(StageName, current, HtmlResult, TRUE)
            /\ Persist(StageName, HtmlResult)
            /\ Advance
            /\ error' = error
       ELSE /\ ppc' = "failed" /\ error' = StageError
            /\ Entered(StageName, current, NoDoc, TRUE)
            /\ UNCHANGED <<stage, stage_files>>
    /\ UNCHANGED <<start_stage, end_stage, language, persist_intermediates, raw_text,
                   description, current, tasks, order, gaStage, gaInput, gaOutput,
                   mergedStages, genCalls, stage_dir,
                   mergeVars, chatVars, audioVars, outputVars>>

\* ------------------------------------------------------------------------
\* pipeline/audio.py: annotate_audio runs on one cache directory
\* ------------------------------------------------------------------------
\* a text is a sequence of characters; the alphabet has letters, upper-case
\* letters, the blank and a punctuation mark (no CJK character)
Whitespace == {" "}

Alnum == {"a", "b", "c", "e", "h", "o", "E", "B"}

\* str.lower on one character
LowerChar(ch) == CASE ch = "E" -> "e" [] ch = "B" -> "b" [] OTHER -> ch

Lower(text) == [i \in 1..Len(text) |-> LowerChar(text[i])]

RECURSIVE LStrip(_)
LStrip(text) ==
    IF Len(text) > 0 /\ Head(text) \in Whitespace THEN LStrip(Tail(text)) ELSE text

RECURSIVE RStrip(_)
RStrip(text) ==
    IF Len(text) > 0 /\ text[Len(text)] \in Whitespace
    THEN RStrip(SubSeq(text, 1, Len(text) - 1))
    ELSE text

\* text.strip()
Strip(text) == RStrip(LStrip(text))

\* _is_word_token(surface)
IsWordToken(surface) ==
    /\ Len(surface) > 0
    /\ \E i \in 1..Len(surface) : surface[i] \notin Whitespace
    /\ \E i \in 1..Len(surface) : surface[i] \in Alnum

\* spec.language of every run
AudioLanguage == "en"

\* spec.voice or 'default'
VoiceName(voice) == IF voice = Null THEN "default" ELSE voice

\* key = f"{level}:{spec.language}:{spec.voice or 'default'}:{normalized.lower()}"
CacheKey(level, voice, normalized) ==
    <<level, AudioLanguage, VoiceName(voice), Lower(normalized)>>

\* cache_dir / (hashlib.sha1(key.encode("utf-8")).hexdigest() + ".wav"):
\* a path is identified by the key it is the digest of
FileName(key) == [sha1 |-> key]

\* hash_key = f"page:{page_key}", page_key the joined segment paths
PageKey(paths) == <<"page", paths>>

\* ---- files ----
\* a file that has been opened for writing and not yet closed
PartialFile == [complete |-> FALSE, params |-> "none", frames |-> <<>>]

\* what an engine leaves at output_path when synthesize_to_path returns:
\* the audio of the text under the engine's parameters ("ok"), a file
\* with no frames ("short"), or a file whose header has a zero frame rate
\* ("zeroed")
Synthesized(engine, text, kind) ==
    [complete |-> TRUE,
     params |-> IF kind = "zeroed" THEN "zeroed" ELSE engine,
     frames |-> IF kind = "short" THEN <<>> ELSE <<text>>]

\* SimpleTTSEngine writes at least 0.25 s of audio; another engine may
\* write anything
SynthKinds(engine) ==
    IF engine = "SimpleTTSEngine" THEN {"ok"} ELSE {"ok", "short", "zeroed"}

\* output_path.exists()
Exists(path) == path \in DOMAIN disk

\* a plausible slip: the file on disk is not consulted
NeedsSynthesisAlways(path) == TRUE

\* if not output_path.exists():
NeedsSynthesis(path) == ~Exists(path)

\* _validate_wav(path) does not raise, for a file that is not being written
ValidWav(path) ==
    /\ Exists(path)
    /\ disk[path].complete
    /\ disk[path].params # "zeroed"
    /\ Len(disk[path].frames) > 0

\* wave.open(path, "rb") succeeds; a file that is being written is read
\* as far as it is written when lucky
Readable(file, lucky) == file.complete \/ lucky

\* the guard of _concat_wave_files on the parameters of the first input
WellFormed(file) == file.params \notin {"zeroed", "none"}

RECURSIVE Flatten(_)
Flatten(qs) == IF Len(qs) = 0 THEN <<>> ELSE Head(qs) \o Flatten(Tail(qs))

\* the inputs before the first one that cannot be opened
RECURSIVE ReadablePrefix(_, _)
ReadablePrefix(files, lucky) ==
    IF Len(files) = 0 \/ ~Readable(Head(files), lucky)
    THEN <<>>
    ELSE <<Head(files)>> \o ReadablePrefix(Tail(files), lucky)

\* a plausible slip: only the first input is written
ConcatFramesFirstOnly(files) == Head(files).frames

\* out.writeframes(...) for every input, in order
ConcatFrames(files) == Flatten([i \in 1..Len(files) |-> files[i].frames])

\* _concat_wave_files(inputs, output) for the files read from inputs:
\* what is left at output, and whether the call raised
ConcatWaveFiles(files, lucky) ==
    LET read == ReadablePrefix(files, lucky)
    IN IF Len(files) = 1
       THEN [file |-> files[1], raised |-> FALSE]
       ELSE IF Len(read) = 0 \/ ~WellFormed(read[1])
       THEN [file |-> PartialFile, raised |-> TRUE]
       ELSE [file |-> [complete |-> TRUE, params |-> read[1].params,
                        frames |-> ConcatFrames(read)],
             raised |-> Len(read) < Len(files)]

\* ---- documents ----
Tok(surface, lemma) == [surface |-> surface, lemma |-> lemma]

Seg(surface, tokens) == [surface |-> surface, tokens |-> tokens]

Page(segments) == [segments |-> segments]

Echo == <<"e", "c", "h", "o">>

\* the document of test_caches_repeat_tokens
EchoDoc ==
    [pages |-> <<Page(<<Seg(Echo \o <<" ">> \o Echo,
                            <<Tok(Echo, Null), Tok(<<" ">>, Null), Tok(Echo, Null)>>)>>)>>]

\* two pages with the same two segments
RepeatDoc ==
    [pages |-> <<Page(<<Seg(<<"a">>, <<>>), Seg(<<"b">>, <<>>)>>),
                 Page(<<Seg(<<"a">>, <<>>), Seg(<<"b">>, <<>>)>>)>>]

\* a page without segment audio, then a page with one segment whose token
\* has a lemma
MixedDoc ==
    [pages |-> <<Page(<<Seg(<<" ">>, <<Tok(<<",">>, Null)>>)>>),
                 Page(<<Seg(<<" ", "E">> \o Tail(Echo), <<Tok(<<"E">> \o Tail(Echo), Echo)>>)>>)>>]

AudioDocs == {EchoDoc, RepeatDoc, MixedDoc}

\* the runs that share the cache directory
Runs == {1, 2}

\* ---- the loops of annotate_audio ----
SegmentItems(doc, p, s) ==
    [t \in 1..Len(doc.pages[p].segments[s].tokens) |->
        [kind |-> "token", page |-> p, seg |-> s, tok |-> t]]
    \o <<[kind |-> "segment", page |-> p, seg |-> s, tok |-> 0]>>

PageItems(doc, p) ==
    Flatten([s \in 1..Len(doc.pages[p].segments) |-> SegmentItems(doc, p, s)])
    \o <<[kind |-> "page", page |-> p, seg |-> 0, tok |-> 0]>>

\* the tokens, segments and pages in the order the loops reach them
WorkItems(doc) == Flatten([p \in 1..Len(doc.pages) |-> PageItems(doc, p)])

ItemSurface(doc, item) ==
    IF item.kind = "token"
    THEN doc.pages[item.page].segments[item.seg].tokens[item.tok].surface
    ELSE doc.pages[item.page].segments[item.seg].surface

\* token_key = annotations.get("lemma") or surface; the segment surface
ItemText(doc, item) ==
    IF item.kind = "token"
    THEN LET token == doc.pages[item.page].segments[item.seg].tokens[item.tok]
         IN IF token.lemma # Null /\ token.lemma # <<>> THEN token.lemma ELSE token.surface
    ELSE doc.pages[item.page].segments[item.seg].surface

\* the work list of every document
WorkItemsOf == [doc \in AudioDocs |-> WorkItems(doc)]

CurrentItem(run) == WorkItemsOf[run.doc][run.idx]

CurrentText(run) == Strip(ItemText(run.doc, CurrentItem(run)))

CurrentKey(run) == CacheKey(CurrentItem(run).kind, run.voice, CurrentText(run))

\* _audio_annotation(path, level=..., engine=engine) attached to the item
AudioAnnotation(run, level, path) ==
    [idx |-> run.idx, level |-> level, path |-> path, engine |-> run.engine]

\* ensure_audio returns path for key: cache[key] = output_path, the
\* annotation is attached, a segment path joins segment_audio_paths
AfterEnsure(run, key, path) ==
    [run EXCEPT !.pc = "item",
                !.idx = @ + 1,
                !.attempt = 0,
                !.cache = Put(@, key, path),
                !.out = Append(@, AudioAnnotation(run, CurrentItem(run).kind, path)),
                !.seg_paths = IF CurrentItem(run).kind = "segment"
                              THEN Append(@, path) ELSE @]

SynthCall(r, run, n) ==
    [run |-> r, key |-> CurrentKey(run), engine |-> run.engine, attempt |-> n,
     repeat |-> CurrentKey(run) \in validated]

\* the except branch of ensure_audio after the primary attempt, and the
\* exception that leaves annotate_audio after the fallback attempt
AfterFailure(run) ==
    IF run.attempt = 1
    THEN [run EXCEPT !.pc = "synth", !.attempt = 2, !.engine = "SimpleTTSEngine"]
    ELSE [run EXCEPT !.pc = "raised"]

FailureLog(r, run) ==
    IF run.attempt = 1
    THEN [synthLog EXCEPT ![r] = Append(@, SynthCall(r, AfterFailure(run), 2))]
    ELSE synthLog

\* the page loop moves on to the next page
NextPage(run, annotated, path) ==
    [run EXCEPT !.pc = "item",
                !.idx = @ + 1,
                !.seg_paths = <<>>,
                !.concat_cache = IF annotated THEN Put(@, PageKey(run.seg_paths), path) ELSE @,
                !.out = IF annotated
                        THEN Append(@, AudioAnnotation(run, "page", path))
                        ELSE @]

NewRun(doc, voice, tts_engine) ==
    [pc |-> "idle", doc |-> doc, voice |-> voice, tts_engine |-> tts_engine,
     engine |-> Null, idx |-> 1, attempt |-> 0, cache |-> <<>>,
     concat_cache |-> <<>>, seg_paths |-> <<>>, out |-> <<>>]

\* ---- actions ----
AudioIdle == UNCHANGED <<mergeVars, chatVars, pipeVars, outputVars>>

\* annotate_audio is entered: the engine is tts_engine when given, else
\* SimpleTTSEngine (no TTS credentials in the environment); the runs are
\* numbered in the order they are entered
StartRun(r) ==
    /\ runs[r].pc = "idle"
    /\ \A q \in Runs : q < r => runs[q].pc # "idle"
    /\ runs' = [runs EXCEPT ![r].pc = "item",
                            ![r].engine = IF runs[r].tts_engine # Null
                                          THEN runs[r].tts_engine
                                          ELSE "SimpleTTSEngine"]
    /\ UNCHANGED <<disk, synthLog, validated, failures>>
    /\ AudioIdle

\* ensure_audio up to its first await: the token is skipped when it is not
\* a word, the text when it is blank; a cached key or an existing file is
\* returned; otherwise the engine is called
EnsureAudio(r) ==
    LET run == runs[r]
        item == CurrentItem(run)
        key == CurrentKey(run)
        path == FileName(key)
    IN /\ run.pc = "item"
       /\ run.idx <= Len(WorkItemsOf[run.doc])
       /\ item.kind \in {"token", "segment"}
       /\ IF \/ item.kind = "token" /\ ~IsWordToken(ItemSurface(run.doc, item))
             \/ CurrentText(run) = <<>>
          THEN /\ runs' = [runs EXCEPT ![r].idx = @ + 1]
               /\ UNCHANGED synthLog
          ELSE IF key \in DOMAIN run.cache
          THEN /\ runs' = [runs EXCEPT ![r] = AfterEnsure(run, key, run.cache[key])]
               /\ UNCHANGED synthLog
          ELSE IF ~NeedsSynthesis(path)
          THEN /\ runs' = [runs EXCEPT ![r] = AfterEnsure(run, key, path)]
               /\ UNCHANGED synthLog
          ELSE /\ runs' = [runs EXCEPT ![r].pc = "synth", ![r].attempt = 1]
               /\ synthLog' = [synthLog EXCEPT ![r] = Append(@, SynthCall(r, run, 1))]
       /\ UNCHANGED <<disk, validated, failures>>
       /\ AudioIdle

\* engine.synthesize_to_path opens output_path for writing
SynthOpens(r) ==
    /\ runs[r].pc = "synth"
    /\ runs' = [runs EXCEPT ![r].pc = "writing"]
    /\ disk' = Put(disk, FileName(CurrentKey(runs[r])), PartialFile)
    /\ UNCHANGED <<synthLog, validated, failures>>
    /\ AudioIdle

\* engine.synthesize_to_path raises, before or while it writes the file
SynthRaises(r) ==
    /\ runs[r].pc \in {"synth", "writing"}
    /\ failures < MaxFailures
    /\ failures' = failures + 1
    /\ runs' = [runs EXCEPT ![r] = AfterFailure(runs[r])]
    /\ synthLog' = FailureLog(r, runs[r])
    /\ UNCHANGED <<disk, validated>>
    /\ AudioIdle

\* engine.synthesize_to_path writes the file, closes it and returns
SynthCloses(r, kind) ==
    /\ runs[r].pc = "writing"
    /\ kind \in SynthKinds(runs[r].engine)
    /\ kind # "ok" => failures < MaxFailures
    /\ failures' = IF kind = "ok" THEN failures ELSE failures + 1
    /\ runs' = [runs EXCEPT ![r].pc = "validate"]
    /\ disk' = Put(disk, FileName(CurrentKey(runs[r])),
                   Synthesized(runs[r].engine, CurrentText(runs[r]), kind))
    /\ UNCHANGED <<synthLog, validated>>
    /\ AudioIdle

\* _validate_wav(output_path): passed is what it finds; a file another
\* run is writing at that moment may pass or not
Validates(r, passed) ==
    LET run == runs[r]
        key == CurrentKey(run)
        path == FileName(key)
    IN /\ run.pc = "validate"
       /\ (Exists(path) /\ ~disk[path].complete) \/ passed = ValidWav(path)
       /\ IF passed
          THEN /\ runs' = [runs EXCEPT ![r] = AfterEnsure(run, key, path)]
               /\ validated' = validated \cup {key}
               /\ UNCHANGED synthLog
          ELSE /\ runs' = [runs EXCEPT ![r] = AfterFailure(run)]
               /\ synthLog' = FailureLog(r, run)
               /\ UNCHANGED validated
       /\ UNCHANGED <<disk, failures>>
       /\ AudioIdle

\* the end of the page loop up to its await: no page audio without
\* segment audio; a cached or an existing page file is used as it is
PageAudio(r) ==
    LET run == runs[r]
        hash_key == PageKey(run.seg_paths)
        out_path == FileName(hash_key)
    IN /\ run.pc = "item"
       /\ run.idx <= Len(WorkItemsOf[run.doc])
       /\ CurrentItem(run).kind = "page"
       /\ IF run.seg_paths = <<>>
          THEN runs' = [runs EXCEPT ![r] = NextPage(run, FALSE, Null)]
          ELSE IF hash_key \in DOMAIN run.concat_cache
          THEN runs' = [runs EXCEPT ![r] = NextPage(run, TRUE, run.concat_cache[hash_key])]
          ELSE IF Exists(out_path)
          THEN runs' = [runs EXCEPT ![r] = NextPage(run, TRUE, out_path)]
          ELSE runs' = [runs EXCEPT ![r].pc = "concat"]
       /\ UNCHANGED <<disk, synthLog, validated, failures>>
       /\ AudioIdle

\* _concat_wave_files opens output for writing
ConcatOpens(r) ==
    /\ runs[r].pc = "concat"
    /\ runs' = [runs EXCEPT ![r].pc = "concatWriting"]
    /\ disk' = Put(disk, FileName(PageKey(runs[r].seg_paths)), PartialFile)
    /\ UNCHANGED <<synthLog, validated, failures>>
    /\ AudioIdle

\* _concat_wave_files reads the inputs, writes and returns or raises; an
\* exception is caught by the page loop: out_path = None
ConcatCloses(r, lucky) ==
    LET run == runs[r]
        out_path == FileName(PageKey(run.seg_paths))
        files == [i \in 1..Len(run.seg_paths) |-> disk[run.seg_paths[i]]]
        done == ConcatWaveFiles(files, lucky)
    IN /\ run.pc = "concatWriting"
       /\ disk' = Put(disk, out_path, done.file)
       /\ runs' = [runs EXCEPT ![r] = NextPage(run, ~done.raised, out_path)]
       /\ UNCHANGED <<synthLog, validated, failures>>
       /\ AudioIdle

\* _concat_wave_files fails with an I/O error, before or while it writes
ConcatFails(r) ==
    /\ runs[r].pc \in {"concat", "concatWriting"}
    /\ failures < MaxFailures
    /\ failures' = failures + 1
    /\ runs' = [runs EXCEPT ![r] = NextPage(runs[r], FALSE, Null)]
    /\ UNCHANGED <<disk, synthLog, validated>>
    /\ AudioIdle

\* the loops are over: the document is returned
ReturnDocument(r) ==
    /\ runs[r].pc = "item"
    /\ runs[r].idx > Len(WorkItemsOf[runs[r].doc])
    /\ runs' = [runs EXCEPT ![r].pc = "done"]
    /\ UNCHANGED <<disk, synthLog, validated, failures>>
    /\ AudioIdle

\* ------------------------------------------------------------------------
\* pipeline/compile_html.py: one compile_html call
\* ------------------------------------------------------------------------
\* A string is a sequence of characters, None a missing key or the empty
\* sequence where the code only tests truth; a character that a conversion
\* replaces becomes one element holding the replacement ("%22", "&quot;").
\* A path is a sequence of components, a component a sequence of strings.
\* The alphabet is ASCII, where NFC and xmlcharrefreplace change nothing.

\* ---- strings ----
\* the characters of lemmas in code point order
CodePoints == <<" ", "\"", "%", "2", "B", "a", "b">>

Ord(ch) == CHOOSE i \in 1..Len(CodePoints) : CodePoints[i] = ch

\* x < y on str
RECURSIVE StrLess(_, _)
StrLess(x, y) ==
    IF y = <<>> THEN FALSE
    ELSE IF x = <<>> THEN TRUE
    ELSE IF x[1] = y[1] THEN StrLess(Tail(x), Tail(y))
    ELSE Ord(x[1]) < Ord(y[1])

\* a plausible slip: the percent sign is among the safe characters
QuoteCharPercentSafe(ch) ==
    CASE ch = "\"" -> "%22"
      [] ch = " " -> "%20"
      [] OTHER -> ch

\* quote(lemma, safe="~()*!.'-_") on one character: letters, digits and the
\* safe characters are kept, any other character becomes %XX
QuoteChar(ch) ==
    CASE ch = "\"" -> "%22"
      [] ch = " " -> "%20"
      [] ch = "%" -> "%25"
      [] OTHER -> ch

\* the characters of an element of an encoded text
SpellChar(e) ==
    CASE e = "%22" -> <<"%", "2", "2">>
      [] e = "%20" -> <<"%", "2", "0">>
      [] e = "%25" -> <<"%", "2", "5">>
      [] OTHER -> <<e>>

\* an encoded text, character by character
RECURSIVE Spell(_)
Spell(text) == IF text = <<>> THEN <<>> ELSE SpellChar(Head(text)) \o Spell(Tail(text))

\* _encode_lemma_for_filename(lemma)
EncodeLemmaForFilename(lemma) ==
    IF lemma = <<>> THEN <<"unknown">>
    ELSE [i \in 1..Len(lemma) |-> QuoteChar(lemma[i])]

\* html.escape(text, quote=True) on one character
EscapeChar(ch) ==
    CASE ch = "\"" -> "&quot;"
      [] ch = "&" -> "&amp;"
      [] ch = "<" -> "&lt;"
      [] ch = ">" -> "&gt;"
      [] ch = "'" -> "&#x27;"
      [] OTHER -> ch

\* _escape(text)
Escape(text) == [i \in 1..Len(text) |-> EscapeChar(text[i])]

\* _is_lexical(surface)
IsLexical(surface) ==
    /\ surface # <<>>
    /\ \E i \in 1..Len(surface) : surface[i] \notin Whitespace
    /\ \E i \in 1..Len(surface) : surface[i] \in Alnum

Digits == <<"0", "1", "2", "3", "4", "5", "6", "7", "8", "9">>

\* f"t{counter}"
TokenId(counter) == <<"t", Digits[counter + 1]>>

\* ---- paths ----
RunRoot == << <<"run">> >>

\* html_root = run_root / "html"
HtmlRoot == RunRoot \o << <<"html">> >>

\* a plausible slip: the copies are put under the HTML root
AudioDirUnderHtml == HtmlRoot \o << <<"audio">> >>

\* self.audio_dir = artifact_root / "audio"
AudioDir == RunRoot \o << <<"audio">> >>

\* the audio files a document refers to
TokSource == << <<"cache">>, <<"tok", ".wav">> >>

SegSource == << <<"cache">>, <<"seg", ".wav">> >>

PageSource == << <<"cache">>, <<"page", ".wav">> >>

AudioSources == {TokSource, SegSource, PageSource}

\* hashlib.sha1(str(key).encode("utf-8")).hexdigest(): one digest per path
Sha1Hex(path) == <<"sha1">> \o path[Len(path)]

RECURSIVE CommonPrefix(_, _)
CommonPrefix(x, y) ==
    IF x = <<>> \/ y = <<>> \/ x[1] # y[1] THEN 0
    ELSE 1 + CommonPrefix(Tail(x), Tail(y))

\* os.path.relpath(path, start)
RelPath(path, start) ==
    LET k == CommonPrefix(path, start)
    IN [i \in 1..(Len(start) - k) |-> <<"..">>] \o SubSeq(path, k + 1, Len(path))

\* f"{digest}{suffix}" under an audio directory
CopyPath(dir, src) == dir \o <<Sha1Hex(src)>>

\* src.exists() and shutil.copy2(key, dest) does not raise
Copies(src) == src \in DOMAIN hSources /\ hSources[src] = "exists"

\* _AudioResolver.resolve(path_str): the path of the copy relative to the
\* HTML root, or _audio_path(path_str, html_root) when there is no copy
Resolve(path_str) ==
    IF path_str = <<>> THEN <<>>
    ELSE IF Copies(path_str) THEN RelPath(CopyPath(AudioDir, path_str), HtmlRoot)
    ELSE RelPath(path_str, HtmlRoot)

\* (annotations.get("audio") or {}).get("path") when it is a dict
AudioRef(node) ==
    LET ann == Get(node, "annotations", EmptyDict)
    IN IF "audio" \in DOMAIN ann THEN ann.audio.path ELSE <<>>

\* ---- documents ----
MweToken(surface) ==
    [surface |-> surface, annotations |-> [lemma |-> <<"a">>, mwe_id |-> <<"m", "1">>]]

\* a blank, a word with lemma and audio, a word whose lemma is a quotation
\* mark, a member of the MWE m1, a word with an empty lemma
TokenKinds ==
    {[surface |-> <<" ">>, annotations |-> EmptyDict],
     [surface |-> <<"B">>, annotations |-> [lemma |-> <<"B">>, audio |-> [path |-> TokSource]]],
     [surface |-> <<"h">>, annotations |-> [lemma |-> <<"\"">>]],
     MweToken(<<"a">>),
     [surface |-> <<"e">>, annotations |-> [lemma |-> <<>>]]}

HtmlTokens == SeqUpTo(TokenKinds, MaxTokens)

WithAudio(node, src, on) ==
    IF on THEN Put(node, "annotations", [audio |-> [path |-> src]]) ELSE node

HtmlDocOf(segs, sh, on) ==
    [l2 |-> "en",
     pages |-> [p \in 1..Len(sh) |->
        WithAudio([segments |-> [s \in 1..sh[p] |->
                      WithAudio([tokens |-> segs[SumSeq(SubSeq(sh, 1, p - 1)) + s]],
                                SegSource, on)]],
                  PageSource, on)]]

HtmlDocs(on) ==
    {HtmlDocOf(segs, sh, on) : segs \in [1..MaxSegments -> HtmlTokens], sh \in Shapes}

\* what is in the directories the document refers to
AudioWorlds ==
    {[refs |-> FALSE, sources |-> [src \in AudioSources |-> "exists"]],
     [refs |-> TRUE, sources |-> [src \in AudioSources |-> "exists"]],
     [refs |-> TRUE, sources |-> [src \in AudioSources |->
                                     IF src = SegSource THEN "locked" ELSE "exists"]],
     [refs |-> TRUE, sources |-> [src \in {SegSource, PageSource} |-> "exists"]]}

\* ---- rendering ----
HtmlPages == Get(hText, "pages", <<>>)

\* total_pages = len(spec.text.get("pages", [])) or 1
TotalPages == IF Len(HtmlPages) = 0 THEN 1 ELSE Len(HtmlPages)

TokensAt(p, s) == Get(SegmentsIn(HtmlPages[p])[s], "tokens", <<>>)

RECURSIVE TokensBefore(_, _)
TokensBefore(p, s) ==
    IF p = 0 THEN 0
    ELSE IF s = 0 THEN TokensBefore(p - 1, IF p = 1 THEN 0 ELSE Len(SegmentsIn(HtmlPages[p - 1])))
    ELSE TokensBefore(p, s - 1) + Len(TokensAt(p, s))

\* _token_ids(text)[(p - 1, s - 1, t - 1)]
TokenIdAt(p, s, t) == TokenId(TokensBefore(p, s - 1) + t - 1)

\* the element _render_tokens appends for one token
RenderToken(token, id, highlight_lemma) ==
    LET ann == Get(token, "annotations", EmptyDict)
        surface == Get(token, "surface", <<>>)
        lemma == Get(ann, "lemma", <<>>)
        audio_path == Resolve(AudioRef(token))
        attrs == [a \in {"data-token-id"}
                        \cup (IF lemma # <<>> THEN {"data-lemma"} ELSE {})
                        \cup (IF "mwe_id" \in DOMAIN ann THEN {"data-mwe-id"} ELSE {})
                        \cup (IF audio_path # <<>> THEN {"data-audio"} ELSE {}) |->
                    CASE a = "data-token-id" -> id
                      [] a = "data-lemma" -> Escape(lemma)
                      [] a = "data-mwe-id" -> Escape(ann.mwe_id)
                      [] OTHER -> audio_path]
    IN IF ~(IsLexical(surface) \/ Truthy(ann))
       THEN [text |-> Escape(surface)]
       ELSE [class |-> IF highlight_lemma # <<>> /\ lemma = highlight_lemma
                       THEN <<"token", "concordance-highlight">> ELSE <<"token">>,
             attrs |-> attrs,
             content |-> Escape(surface)]

\* what _render_tokens appends to token_info for one token
TokenMeta(token, id, p, s) ==
    LET ann == Get(token, "annotations", EmptyDict)
        opt == {k \in {"lemma", "mwe_id"} : k \in DOMAIN ann}
    IN [k \in {"token_id", "surface", "page_index", "segment_index", "audio"} \cup opt |->
            CASE k = "token_id" -> id
              [] k = "surface" -> Get(token, "surface", <<>>)
              [] k = "page_index" -> p - 1
              [] k = "segment_index" -> s - 1
              [] k = "audio" -> Resolve(AudioRef(token))
              [] OTHER -> ann[k]]

RenderTokens(p, s, highlight_lemma) ==
    [t \in 1..Len(TokensAt(p, s)) |->
        RenderToken(TokensAt(p, s)[t], TokenIdAt(p, s, t), highlight_lemma)]

SegmentInfo(p, s) ==
    LET tokens == TokensAt(p, s)
        shown == SelectSeq([t \in 1..Len(tokens) |-> t],
                           LAMBDA t : IsLexical(Get(tokens[t], "surface", <<>>))
                                      \/ Truthy(Get(tokens[t], "annotations", EmptyDict)))
    IN [i \in 1..Len(shown) |-> TokenMeta(tokens[shown[i]], TokenIdAt(p, s, shown[i]), p, s)]

RECURSIVE PageInfo(_, _)
PageInfo(p, s) == IF s = 0 THEN <<>> ELSE PageInfo(p, s - 1) \o SegmentInfo(p, s)

\* _render_segment
RenderSegment(p, s) ==
    [segment |-> s - 1,
     audio |-> Resolve(AudioRef(SegmentsIn(HtmlPages[p])[s])),
     tokens |-> RenderTokens(p, s, <<>>)]

\* a plausible slip: the previous page is not clamped to the first page
PrevPageUnclamped(first, now) == now - 1

\* prev_page = max(first, current - 1)
PrevPage(first, now) == MaxOf(first, now - 1)

\* next_page = min(last, current + 1)
NextPageNumber(last, now) == IF now + 1 <= last THEN now + 1 ELSE last

\* _render_page(page_index = p - 1): the page numbers of the four links,
\* the page audio and the segments
RenderPage(p) ==
    [title |-> p,
     nav |-> [first |-> 1, prev |-> PrevPage(1, p),
              next |-> NextPageNumber(TotalPages, p), last |-> TotalPages],
     audio |-> Resolve(AudioRef(HtmlPages[p])),
     segments |-> [s \in 1..Len(SegmentsIn(HtmlPages[p])) |-> RenderSegment(p, s)]]

\* html_root / f"page_{p_idx + 1}.html"
PageFile(n) == HtmlRoot \o << <<"page_", Digits[n + 1], ".html">> >>

\* html_root / f"concordance_{lemma_slug}.html"
ConcordanceFile(lemma_slug) ==
    HtmlRoot \o << <<"concordance_">> \o Spell(lemma_slug) \o <<".html">> >>

\* the files resolver.resolve copies while it renders the given references
CopiesOf(refs) ==
    [path \in {CopyPath(AudioDir, src) : src \in {r \in refs : r # <<>> /\ Copies(r)}} |->
        [copy_of |-> CHOOSE src \in refs : src # <<>> /\ CopyPath(AudioDir, src) = path]]

SegmentRefs(p, s) ==
    {AudioRef(SegmentsIn(HtmlPages[p])[s])}
        \cup {AudioRef(TokensAt(p, s)[t]) : t \in 1..Len(TokensAt(p, s))}

PageRefs(p) ==
    {AudioRef(HtmlPages[p])}
        \cup UNION {SegmentRefs(p, s) : s \in 1..Len(SegmentsIn(HtmlPages[p]))}

\* d1 | d2 on dicts
Update(d1, d2) ==
    [k \in DOMAIN d1 \cup DOMAIN d2 |-> IF k \in DOMAIN d2 THEN d2[k] ELSE d1[k]]

\* ---- the concordance ----
\* a plausible slip: one line for an MWE in the whole document
DedupKeyMweOnly(meta) == <<meta.mwe_id>>

\* dedup_key = (mwe_id, meta.get("page_index"), meta.get("segment_index"))
DedupKey(meta) == <<meta.mwe_id, meta.page_index, meta.segment_index>>

Occurrence(meta) ==
    [token_id |-> meta.token_id, page_index |-> meta.page_index,
     segment_index |-> meta.segment_index, surface |-> meta.surface,
     mwe_id |-> Get(meta, "mwe_id", <<>>)]

\* the loop of _build_concordance from token_info[i] on: entries in
\* insertion order, seen the pairs of a lemma and a dedup key
RECURSIVE ConcordanceFrom(_, _, _, _)
ConcordanceFrom(info, i, entries, seen) ==
    IF i > Len(info) THEN entries
    ELSE LET meta == info[i]
             lemma == Get(meta, "lemma", <<>>)
             known == \E j \in 1..Len(entries) : entries[j].lemma = lemma
             listed == IF known THEN entries
                       ELSE Append(entries, [lemma |-> lemma, pos |-> Null,
                                             gloss |-> Null, occurrences |-> <<>>])
             mwe == "mwe_id" \in DOMAIN meta
             again == mwe /\ <<lemma, DedupKey(meta)>> \in seen
             added == [j \in 1..Len(listed) |->
                          IF listed[j].lemma = lemma
                          THEN [listed[j] EXCEPT !.occurrences = Append(@, Occurrence(meta))]
                          ELSE listed[j]]
         IN IF lemma = <<>> THEN ConcordanceFrom(info, i + 1, entries, seen)
            ELSE IF again THEN ConcordanceFrom(info, i + 1, listed, seen)
            ELSE ConcordanceFrom(info, i + 1, added,
                                 IF mwe THEN seen \cup {<<lemma, DedupKey(meta)>>} ELSE seen)

\* a plausible slip: the entries are sorted by the lemma as it is written
SortKeyExact(entry) == entry.lemma

\* key=lambda e: e["lemma"].lower()
SortKey(entry) == Lower(entry.lemma)

\* sorted(...) is stable: an entry goes after the entries whose key is not larger
RECURSIVE InsertEntry(_, _)
InsertEntry(sorted, entry) ==
    IF sorted = <<>> THEN <<entry>>
    ELSE IF StrLess(SortKey(entry), SortKey(Head(sorted))) THEN <<entry>> \o sorted
    ELSE <<Head(sorted)>> \o InsertEntry(Tail(sorted), entry)

RECURSIVE SortedEntries(_)
SortedEntries(entries) ==
    IF entries = <<>> THEN <<>>
    ELSE InsertEntry(SortedEntries(SubSeq(entries, 1, Len(entries) - 1)), entries[Len(entries)])

\* _build_concordance(text, token_info)
BuildConcordance(info) == SortedEntries(ConcordanceFrom(info, 1, <<>>, {}))

\* _render_concordance_page(entry): one line for each occurrence
RenderConcordancePage(entry) ==
    [heading |-> Escape(entry.lemma),
     lines |-> [o \in 1..Len(entry.occurrences) |->
        LET occ == entry.occurrences[o]
            p == occ.page_index + 1
            s == occ.segment_index + 1
        IN [segment |-> occ.segment_index, page_number |-> p, token_id |-> occ.token_id,
            audio |-> Resolve(AudioRef(SegmentsIn(HtmlPages[p])[s])),
            tokens |-> RenderTokens(p, s, entry.lemma)]]]

EntryRefs(entry) ==
    UNION {SegmentRefs(entry.occurrences[o].page_index + 1,
                       entry.occurrences[o].segment_index + 1) :
              o \in 1..Len(entry.occurrences)}

\* _write_static_assets(html_root)
StaticAssets ==
    [path \in {HtmlRoot \o << <<"static">>, <<name>> >> :
                  name \in {"clara_styles_main.css", "clara_styles_concordance.css",
                            "clara_scripts.js"}} |-> [static |-> TRUE]]

\* ---- actions ----
HtmlIdle == UNCHANGED <<mergeVars, chatVars, pipeVars, audioVars, resumeVars, clientVars, normVars, compileVars>>

\* compile_html up to the page loop: the directories, the resolver, the
\* static assets
Prepare ==
    /\ hpc = "start"
    /\ hpc' = "pages"
    /\ hFiles' = Update(hFiles, StaticAssets)
    /\ UNCHANGED <<hText, hSources, token_info, concordance, p_idx, c_idx>>
    /\ HtmlIdle

\* one round of "for p_idx in range(total_pages)"; without pages
\* text.get("pages", [])[0] raises IndexError
WritePage ==
    /\ hpc = "pages" /\ p_idx < TotalPages
    /\ IF Len(HtmlPages) = 0
       THEN /\ hpc' = "raised"
            /\ UNCHANGED <<hFiles, token_info, p_idx>>
       ELSE /\ hFiles' = Update(Update(hFiles, CopiesOf(PageRefs(p_idx + 1))),
                                [path \in {PageFile(p_idx + 1)} |-> RenderPage(p_idx + 1)])
            /\ token_info' = token_info \o PageInfo(p_idx + 1, Len(SegmentsIn(HtmlPages[p_idx + 1])))
            /\ p_idx' = p_idx + 1
            /\ hpc' = hpc
    /\ UNCHANGED <<hText, hSources, concordance, c_idx>>
    /\ HtmlIdle

\* concordance = _build_concordance(spec.text, token_info)
Concordance ==
    /\ hpc = "pages" /\ p_idx = TotalPages
    /\ hpc' = "concordance"
    /\ concordance' = BuildConcordance(token_info)
    /\ UNCHANGED <<hText, hSources, hFiles, token_info, p_idx, c_idx>>
    /\ HtmlIdle

\* one round of "for entry in concordance"
WriteConcordancePage ==
    /\ hpc = "concordance" /\ c_idx < Len(concordance)
    /\ LET entry == concordance[c_idx + 1]
       IN hFiles' = Update(Update(hFiles, CopiesOf(EntryRefs(entry))),
                           [path \in {ConcordanceFile(EncodeLemmaForFilename(entry.lemma))} |->
                               RenderConcordancePage(entry)])
    /\ c_idx' = c_idx + 1
    /\ UNCHANGED <<hpc, hText, hSources, token_info, concordance, p_idx>>
    /\ HtmlIdle

\* return {"html_path": ..., "concordance": concordance}
ReturnHtml ==
    /\ hpc = "concordance" /\ c_idx = Len(concordance)
    /\ hpc' = "returned"
    /\ UNCHANGED <<hText, hSources, hFiles, token_info, concordance, p_idx, c_idx>>
    /\ HtmlIdle

\* ------------------------------------------------------------------------
\* Specifications
\* ------------------------------------------------------------------------
ChatOff ==
    /\ cpc = "off" /\ mode = "custom" /\ legacy_module = "none"
    /\ max_retries = 1 /\ attempt = 0 /\ backoff = 1
    /\ sleeps = <<>> /\ events = <<>> /\ outcomes = <<>>
    /\ req = "none" /\ reqOutcome = "none" /\ reqStarts = 0
    /\ heartbeats = 0 /\ lateBeats = 0 /\ switched = 0
    /\ result = Outcome("none", "none", 0)

MergeOff ==
    /\ mpc = "off" /\ mSegment = EmptyDict /\ mResponse = EmptyDict /\ mMerged = EmptyDict

AudioOff ==
    /\ runs = <<>> /\ disk = <<>> /\ synthLog = <<>> /\ validated = {} /\ failures = 0

HtmlOff ==
    /\ hpc = "off" /\ hText = EmptyDict /\ hSources = <<>> /\ hFiles = <<>>
    /\ token_info = <<>> /\ concordance = <<>> /\ p_idx = 0 /\ c_idx = 0

ResumeOff == rpc = "off" /\ plan = EmptyDict /\ run_results = EmptyDict

ClientOff == install = EmptyDict

NormOff == npc = "off" /\ nCall = EmptyDict /\ nReturned = NoDoc

CompileOff == run_dirs = <<>> /\ compiled_path = 0 /\ compiled = NoDoc

OutputOff == HtmlOff /\ ResumeOff /\ ClientOff /\ NormOff /\ CompileOff

PipeOff ==
    /\ ppc = "off" /\ start_stage = "text_gen" /\ end_stage = "text_gen"
    /\ language = "en" /\ raw_text = Null /\ description = Null
    /\ current = NoDoc /\ stage = 0 /\ tasks = <<>> /\ order = <<>>
    /\ gaStage = 0 /\ gaInput = NoDoc /\ gaOutput = NoDoc
    /\ mergedStages = {} /\ genCalls = 0
    /\ persist_intermediates = FALSE /\ stage_dir = FALSE /\ stage_files = EmptyDict
    /\ stage_calls = <<>> /\ error = "none"

\* ---- the merge of one segment ----
InitMerge ==
    /\ mpc = "input"
    /\ mSegment \in BaseSegments
    /\ mResponse \in ResponseSegments
    /\ mMerged = EmptyDict
    /\ ChatOff
    /\ PipeOff
    /\ AudioOff
    /\ OutputOff

\* updated = _merge_segment(segment, results.get((page_idx, seg_idx), {}))
Merge ==
    /\ mpc = "input"
    /\ mpc' = "merged"
    /\ mMerged' = MergeSegment(mSegment, mResponse)
    /\ UNCHANGED <<mSegment, mResponse, chatVars, pipeVars, audioVars, outputVars>>

NextMerge == Merge

SpecMerge == InitMerge /\ [][NextMerge]_vars

\* ---- one chat_json call ----
\* <<_mode, _legacy_module>> after __init__: an injected client is "custom";
\* "legacy" is chosen only when the legacy API is supported
ConstructedClients ==
    ({"custom", "async"} \X {"none", "old", "new"}) \cup {<<"legacy", "old">>}

\* a client as __init__ leaves it, and the locals of chat_json before the loop
InitChat ==
    /\ MergeOff
    /\ PipeOff
    /\ AudioOff
    /\ OutputOff
    /\ cpc = "attempt"
    /\ \E client \in ConstructedClients :
          mode = client[1] /\ legacy_module = client[2]
    /\ max_retries \in 0..MaxRetriesBound
    /\ attempt = 0
    /\ backoff = 1
    /\ sleeps = <<>> /\ events = <<>> /\ outcomes = <<>>
    /\ req = "none" /\ reqOutcome = "none" /\ reqStarts = 0
    /\ heartbeats = 0 /\ lateBeats = 0 /\ switched = 0
    /\ result = Outcome("none", "none", 0)

NextChat ==
    \/ StartAttempt
    \/ \E o \in ErrorKinds : BuildRaises(o)
    \/ \E o \in RequestOutcomes : RequestCompletes(o)
    \/ HeartbeatTimeout
    \/ Observe
    \/ SleepDone
    \/ CancelCall

SpecChat == InitChat /\ [][NextChat]_vars

\* one chat_json call on an event loop that runs every coroutine that can
\* run: the loop body is entered, a request that was issued completes, its
\* completion is observed and asyncio.sleep returns
SpecChatFair ==
    /\ SpecChat
    /\ WF_vars(StartAttempt \/ \E o \in ErrorKinds : BuildRaises(o))
    /\ WF_vars(\E o \in RequestOutcomes : RequestCompletes(o))
    /\ WF_vars(Observe)
    /\ WF_vars(SleepDone)

\* ---- the construction of a client, then one chat_json call ----
\* what OpenAIClient.__init__ finds: an injected client or none, the openai
\* package (no AsyncOpenAI, AsyncOpenAI whose dependencies fail to import,
\* or a healthy AsyncOpenAI), the module for the legacy API, and whether a
\* key is configured
Installations ==
    [injected : BOOLEAN, sdk : {"none", "broken", "healthy"},
     legacy : {"none", "old", "new"}, api_key : BOOLEAN]

\* AsyncOpenAI(**client_kwargs) of the openai package: without a key it
\* raises OpenAIError
AsyncClientConstructs(inst) == inst.api_key

\* __init__: the mode the client is left in, or the exception it raises
ConstructedMode(inst) ==
    IF inst.injected THEN "custom"
    ELSE IF inst.sdk = "healthy"
    THEN IF AsyncClientConstructs(inst) THEN "async" ELSE "OpenAIError"
    ELSE IF inst.legacy # "none" /\ LegacyApiSupported(inst.legacy)
    THEN "legacy"
    ELSE "ImportError"

\* OpenAIClient(config=..., client=...)
Construct ==
    /\ cpc = "new"
    /\ LET made == ConstructedMode(install)
       IN IF made \in {"custom", "async", "legacy"}
          THEN /\ mode' = made
               /\ cpc' = "attempt"
               /\ result' = result
          ELSE /\ mode' = mode
               /\ cpc' = "not_constructed"
               /\ result' = Outcome("raised", made, 0)
    /\ UNCHANGED <<legacy_module, max_retries, attempt, backoff, sleeps, events,
                   outcomes, req, reqOutcome, reqStarts, heartbeats, lateBeats,
                   switched, mergeVars, pipeVars, audioVars, outputVars>>

InitClient ==
    /\ MergeOff
    /\ PipeOff
    /\ AudioOff
    /\ HtmlOff
    /\ ResumeOff
    /\ NormOff
    /\ CompileOff
    /\ install \in Installations
    /\ cpc = "new"
    /\ mode = "async"
    /\ legacy_module = install.legacy
    /\ max_retries \in 0..MaxRetriesBound
    /\ attempt = 0
    /\ backoff = 1
    /\ sleeps = <<>> /\ events = <<>> /\ outcomes = <<>>
    /\ req = "none" /\ reqOutcome = "none" /\ reqStarts = 0
    /\ heartbeats = 0 /\ lateBeats = 0 /\ switched = 0
    /\ result = Outcome("none", "none", 0)

NextClient ==
    \/ Construct
    \/ NextChat

SpecClient == InitClient /\ [][NextClient]_vars

\* ---- the document one stage function returns ----
\* an optional entry of a dict
Optional(values) == {[has |-> FALSE]} \cup {[has |-> TRUE, v |-> x] : x \in values}

With(d, k, o) == IF o.has THEN Put(d, k, o.v) ELSE d

\* a value of "annotations": null, empty, or one entry
AnnotationValues == {NoDoc, EmptyDict, [note |-> "n"]}

\* a value of "pages": no page, or one page with one segment
PageValues == {<<>>, PagesOf(<<1>>)}

\* the documents a stage may be given: l2, pages and annotations present,
\* missing or null (a null "pages" is not among them)
StageDocs ==
    {With(With(With([surface |-> "T"], "l2", l), "pages", p), "annotations", a) :
        l \in Optional({Null, "de"}), p \in Optional(PageValues),
        a \in Optional(AnnotationValues)}

\* what the provider may answer to the text_gen and segmentation_phase_1
\* prompts
DocumentResponses ==
    {With(With(With(With(EmptyDict, "l2", l), "l1", t), "pages", p), "annotations", a) :
        l \in Optional({Null, "", "de"}), t \in Optional({"fr"}),
        p \in Optional(PageValues), a \in Optional(AnnotationValues)}

\* TextGenSpec.description: a dict, or the str run_full_pipeline passes
StrDescription == [str |-> "d"]

Descriptions == {EmptyDict, [l2 |-> "it", title |-> "t"], StrDescription}

\* "x or ..." on a str or None
Falsy(x) == x \in {Null, ""}

\* text_gen._normalize_response reaches description.get(...) on a str:
\* AttributeError
TextGenRaises(response, desc) ==
    /\ desc = StrDescription
    /\ \E k \in {"l2", "l1", "title"} : Falsy(Get(response, k, Null))

\* text_gen._normalize_response
NormalizeTextGen(response, lang, desc) ==
    LET first(k) == IF ~Falsy(Get(response, k, Null)) THEN response[k]
                    ELSE Get(desc, k, Null)
        text_json ==
            [l2 |-> IF ~Falsy(first("l2")) THEN first("l2") ELSE lang,
             l1 |-> first("l1"),
             title |-> first("title"),
             surface |-> Get(response, "surface", ""),
             pages |-> Get(response, "pages", <<>>),
             annotations |-> IF Get(response, "annotations", NoDoc) = NoDoc
                             THEN EmptyDict ELSE response["annotations"]]
        keep == {k \in DOMAIN text_json :
                    k \in {"pages", "annotations"} \/ text_json[k] # Null}
    IN [k \in keep |-> text_json[k]]

\* the stage functions that return a document
DocumentStages ==
    {"text_gen", "segmentation_phase_1", "segmentation_phase_2", "mwe", "lemma", "pinyin"}

\* one call of a stage function: its input and the answer of the provider
StageCalls ==
    {[stage |-> "text_gen", language |-> lang, description |-> d, response |-> r] :
        lang \in {"en", "zh"}, d \in Descriptions, r \in DocumentResponses}
    \cup {[stage |-> "segmentation_phase_1", language |-> lang, text |-> "T", response |-> r] :
            lang \in {"en", "zh"}, r \in DocumentResponses}
    \cup {[stage |-> st, language |-> lang, text |-> doc, response |-> r] :
            st \in {"segmentation_phase_2", "mwe", "lemma", "pinyin"},
            lang \in {"en", "zh"}, doc \in StageDocs, r \in SegResponses}

\* generate_text returns
GenerateTextReturns ==
    /\ npc = "called" /\ nCall.stage = "text_gen"
    /\ ~TextGenRaises(nCall.response, nCall.description)
    /\ nReturned' = NormalizeTextGen(nCall.response, nCall.language, nCall.description)
    /\ npc' = "returned"
    /\ UNCHANGED <<nCall, mergeVars, chatVars, pipeVars, audioVars, htmlVars, resumeVars,
                   clientVars, compileVars>>

\* generate_text raises AttributeError
GenerateTextRaises ==
    /\ npc = "called" /\ nCall.stage = "text_gen"
    /\ TextGenRaises(nCall.response, nCall.description)
    /\ npc' = "raised"
    /\ UNCHANGED <<nCall, nReturned, mergeVars, chatVars, pipeVars, audioVars, htmlVars,
                   resumeVars, clientVars, compileVars>>

\* segmentation_phase_1 returns
Segmentation1Returns ==
    /\ npc = "called" /\ nCall.stage = "segmentation_phase_1"
    /\ nReturned' = NormalizeSeg1(nCall.response, nCall.text, nCall.language)
    /\ npc' = "returned"
    /\ UNCHANGED <<nCall, mergeVars, chatVars, pipeVars, audioVars, htmlVars, resumeVars,
                   clientVars, compileVars>>

\* generic_annotation returns, every segment call answered by nCall.response
GenericAnnotationReturns ==
    /\ npc = "called"
    /\ nCall.stage \in {"segmentation_phase_2", "mwe", "lemma"}
    /\ ~(nCall.stage = "segmentation_phase_2" /\ IsZh(nCall.language))
    /\ LET index == TaskIndex(nCall.text)
       IN nReturned' = Annotated(nCall.text, nCall.language,
                                 ResultsOf(index, [i \in 1..Len(index) |-> nCall.response]))
    /\ npc' = "returned"
    /\ UNCHANGED <<nCall, mergeVars, chatVars, pipeVars, audioVars, htmlVars, resumeVars,
                   clientVars, compileVars>>

\* _tokenize_with_jieba returns
JiebaReturns ==
    /\ npc = "called"
    /\ nCall.stage = "segmentation_phase_2" /\ IsZh(nCall.language)
    /\ nReturned' = TokenizedWithJieba(nCall.text, nCall.language)
    /\ npc' = "returned"
    /\ UNCHANGED <<nCall, mergeVars, chatVars, pipeVars, audioVars, htmlVars, resumeVars,
                   clientVars, compileVars>>

\* annotate_pinyin returns
PinyinReturns ==
    /\ npc = "called" /\ nCall.stage = "pinyin"
    /\ nReturned' = PinyinAnnotated(nCall.text, nCall.language)
    /\ npc' = "returned"
    /\ UNCHANGED <<nCall, mergeVars, chatVars, pipeVars, audioVars, htmlVars, resumeVars,
                   clientVars, compileVars>>

InitNormalize ==
    /\ MergeOff
    /\ ChatOff
    /\ PipeOff
    /\ AudioOff
    /\ HtmlOff
    /\ ResumeOff
    /\ ClientOff
    /\ CompileOff
    /\ npc = "called"
    /\ nCall \in StageCalls
    /\ nReturned = NoDoc

NextNormalize ==
    \/ GenerateTextReturns
    \/ GenerateTextRaises
    \/ Segmentation1Returns
    \/ GenericAnnotationReturns
    \/ JiebaReturns
    \/ PinyinReturns

SpecNormalize == InitNormalize /\ [][NextNormalize]_vars

\* ------------------------------------------------------------------
\* compile_project (platform_server/projects/views.py): the run directories
\* of one project. run_dirs lists them oldest first (by st_mtime); each is the
\* set of stage files in its stages/ directory. The name of a new run is
\* taken to be fresh (the clock has moved on since the last run was made).
\* ------------------------------------------------------------------
MaxRunDirs == 4

\* the stage files a run directory may hold: the upstream files of the start
\* stages below
StageFiles == {"lemma", "audio"}

\* the start_stage of a request
CompileStartStages == {"bogus", "segmentation_phase_1", "gloss", "compile_html"}

\* PIPELINE_ORDER[PIPELINE_ORDER.index(start_stage) - 1]
UpstreamStage(start) == PIPELINE_ORDER[IndexOf(start) - 1]

\* _resolve_run_dir: the run compiled_path names, else the directory under
\* runs/ with the greatest st_mtime (0: None)
ResolveRunDir(dirs, path) ==
    IF path # 0 THEN path ELSE Len(dirs)

\* _load_stage_payload(project, stage) is not None: the run it came from, 0
\* when it is None
LoadedFromRun(dirs, path, name) ==
    LET run_dir == ResolveRunDir(dirs, path)
    IN IF run_dir \in 1..Len(dirs) /\ name \in dirs[run_dir] THEN run_dir ELSE 0

\* _prepare_output_dir and stage_dir.mkdir: a new run directory with an empty
\* stages/ directory
PreparedOutputDir(dirs) == Append(dirs, {})

CompileResult(start, outcome, from) ==
    [start_stage |-> start, output_dir |-> Len(run_dirs) + 1, outcome |-> outcome,
     text_obj_from |-> from, pipeline_started |-> FALSE]

\* the request is turned away: unknown start stage, or no description / source
\* text to start from
CompileRejected(start, has_input) ==
    /\ Len(run_dirs) < MaxRunDirs
    /\ \/ start \notin StageNames
       \/ start \in {"text_gen", "segmentation_phase_1"} /\ ~has_input
    /\ run_dirs' = PreparedOutputDir(run_dirs)
    /\ compiled' = CompileResult(start, IF start \notin StageNames THEN "unknown stage"
                                        ELSE "missing input", 0)
    /\ UNCHANGED <<compiled_path, mergeVars, chatVars, pipeVars, audioVars, htmlVars,
                   resumeVars, clientVars, normVars>>

\* "Cannot start at ...: missing upstream stage output"
CompileMissingUpstream(start) ==
    /\ Len(run_dirs) < MaxRunDirs
    /\ start \in StageNames \ {"text_gen", "segmentation_phase_1"}
    /\ LoadedFromRun(PreparedOutputDir(run_dirs), compiled_path, UpstreamStage(start)) = 0
    /\ run_dirs' = PreparedOutputDir(run_dirs)
    /\ compiled' = CompileResult(start, "missing upstream", 0)
    /\ UNCHANGED <<compiled_path, mergeVars, chatVars, pipeVars, audioVars, htmlVars,
                   resumeVars, clientVars, normVars>>

\* the input is there: FullPipelineSpec(..., progress_callback=progress_cb, ...)
\* raises TypeError, the dataclass has no such field; run_full_pipeline is
\* not reached
CompileSpecRaises(start, has_input) ==
    /\ Len(run_dirs) < MaxRunDirs
    /\ start \in StageNames
    /\ LET dirs == PreparedOutputDir(run_dirs)
           from == IF start \in {"text_gen", "segmentation_phase_1"} THEN 0
                   ELSE LoadedFromRun(dirs, compiled_path, UpstreamStage(start))
       IN /\ IF start \in {"text_gen", "segmentation_phase_1"} THEN has_input
             ELSE from # 0
          /\ run_dirs' = dirs
          /\ compiled' = CompileResult(start, "TypeError", from)
    /\ UNCHANGED <<compiled_path, mergeVars, chatVars, pipeVars, audioVars, htmlVars,
                   resumeVars, clientVars, normVars>>

\* the project before a request: up to two earlier runs, and the run
\* compiled_path names if any
InitCompile ==
    /\ MergeOff
    /\ ChatOff
    /\ PipeOff
    /\ AudioOff
    /\ HtmlOff
    /\ ResumeOff
    /\ ClientOff
    /\ NormOff
    /\ run_dirs \in UNION {[1..n -> SUBSET StageFiles] : n \in 0..2}
    /\ compiled_path \in 0..Len(run_dirs)
    /\ compiled = NoDoc

NextCompile ==
    \/ \E start \in CompileStartStages, has_input \in BOOLEAN :
            CompileRejected(start, has_input)
    \/ \E start \in CompileStartStages : CompileMissingUpstream(start)
    \/ \E start \in CompileStartStages, has_input \in BOOLEAN :
            CompileSpecRaises(start, has_input)

SpecCompile == InitCompile /\ [][NextCompile]_vars

\* ---- one run of the pipeline ----
StartStages == StageNames \cup {"unknown"}

\* the run reads spec.text in stage segmentation_phase_1 and before the loop
\* when text_obj is None, and nowhere else
ReadsText(doc, start) ==
    \/ doc = NoDoc
    \/ start \notin StageNames
    \/ IndexOf(start) <= IndexOf("segmentation_phase_1")

\* a FullPipelineSpec as a caller may build it; a field the run never reads
\* (description, and text in a run that starts after segmentation_phase_1,
\* when text_obj is given) is left at its default None
InitPipe ==
    /\ MergeOff
    /\ ChatOff
    /\ AudioOff
    /\ OutputOff
    /\ ppc = "start"
    /\ start_stage \in StartStages
    /\ end_stage \in StartStages
    /\ language \in {"en", "zh"}
    /\ current \in {NoDoc} \cup PipeDocs
    /\ raw_text \in IF ReadsText(current, start_stage) THEN {Null, "T"} ELSE {Null}
    /\ description \in IF current = NoDoc THEN {Null, "d"} ELSE {Null}
    /\ stage = 0
    /\ tasks = <<>> /\ order = <<>>
    /\ gaStage = 0 /\ gaInput = NoDoc /\ gaOutput = NoDoc
    /\ mergedStages = {}
    /\ genCalls = 0
    /\ persist_intermediates \in BOOLEAN
    /\ stage_dir = FALSE /\ stage_files = EmptyDict
    /\ stage_calls = <<>> /\ error = "none"

NextPipe ==
    \/ Validate
    \/ \E ok \in BOOLEAN : PreGenerate(ok)
    \/ \E ok \in BOOLEAN : StageTextGen(ok)
    \/ \E ok \in BOOLEAN, response \in Seg1Responses : StageSegmentation1(ok, response)
    \/ \E ok \in BOOLEAN : StageJieba(ok)
    \/ StageSpecRejected
    \/ StageFanOut
    \/ \E i \in 1..Len(tasks) : TaskStart(i)
    \/ \E i \in 1..Len(tasks), r \in SegResponses : TaskReturns(i, r)
    \/ \E i \in 1..Len(tasks) : TaskRaises(i)
    \/ GatherReturns
    \/ GatherRaises
    \/ CancelRun
    \/ \E i \in 1..Len(tasks) : OrphanRequestFinishes(i)
    \/ \E ok \in BOOLEAN : StagePinyin(ok)
    \/ \E ok \in BOOLEAN : StageAudioOrHtml(ok)

SpecPipe == InitPipe /\ [][NextPipe]_vars

\* ---- a continuous run, then the same stages in two runs ----
\* documents a caller may give: the documents of the pipeline, and one whose
\* annotations have a key that is not a string
ResumeDocs == PipeDocs \cup {[DocOf(<<1>>) EXCEPT !.annotations = [k \in {"<1>"} |-> "x"]]}

\* the provider gives the same answer to the same prompt
SegAnswer(prompt) ==
    IF prompt.operation = "segmentation_phase_2"
    THEN [surface |-> "t", tokens |-> <<[surface |-> "z"]>>]
    ELSE [annotations |-> [lemma |-> "b"]]

Seg1Answer == [pages |-> PagesOf(<<1, 1>>)]

\* _load_stage_payload: the decoded file of the stage, None without the file
LoadStagePayload(files, name) ==
    IF name \in DOMAIN files THEN JsonLoads(files[name]) ELSE NoDoc

\* what a run returns ({"text": current}) or that it raised
RunResult == [status |-> ppc, text |-> IF ppc = "done" THEN current ELSE NoDoc]

\* a new run_full_pipeline call with persist_intermediates in a new output
\* directory
NewPipelineRun(start, end, text, text_obj, desc) ==
    /\ ppc' = "start"
    /\ start_stage' = start /\ end_stage' = end
    /\ raw_text' = text /\ current' = text_obj /\ description' = desc
    /\ stage' = 0 /\ tasks' = <<>> /\ order' = <<>>
    /\ gaStage' = 0 /\ gaInput' = NoDoc /\ gaOutput' = NoDoc
    /\ mergedStages' = {} /\ genCalls' = 0
    /\ persist_intermediates' = TRUE /\ stage_dir' = FALSE /\ stage_files' = EmptyDict
    /\ stage_calls' = <<>> /\ error' = "none"
    /\ UNCHANGED language

\* the run is over and nothing follows
NoPipelineRun ==
    UNCHANGED <<ppc, start_stage, end_stage, language, raw_text, description, current,
                stage, tasks, order, gaStage, gaInput, gaOutput, mergedStages, genCalls,
                persist_intermediates, stage_dir, stage_files, stage_calls, error>>

\* the continuous run from plan.start to plan.end is over: the first of the
\* two runs starts, from plan.start to stage plan.k, with the same input
ContinuousRunEnds ==
    /\ rpc = "continuous" /\ ppc \in {"done", "failed"}
    /\ run_results' = Put(run_results, "continuous", RunResult)
    /\ rpc' = "first"
    /\ NewPipelineRun(plan.start, PIPELINE_ORDER[plan.k], plan.text, plan.text_obj,
                      plan.description)
    /\ UNCHANGED <<plan, mergeVars, chatVars, audioVars, htmlVars, clientVars, normVars,
                   compileVars>>

\* the run up to stage k is over: compile_project starts the second run at
\* stage k + 1 with text_obj = _load_stage_payload(stage k), and refuses
\* without the file
FirstRunEnds ==
    /\ rpc = "first" /\ ppc \in {"done", "failed"}
    /\ LET payload == LoadStagePayload(stage_files, PIPELINE_ORDER[plan.k])
       IN IF ppc = "failed"
          THEN /\ run_results' = Put(run_results, "first", RunResult)
               /\ rpc' = "compared"
               /\ NoPipelineRun
          ELSE IF payload = NoDoc
          THEN /\ run_results' = Put(Put(run_results, "first", RunResult), "second",
                                     [status |-> "refused", text |-> NoDoc])
               /\ rpc' = "compared"
               /\ NoPipelineRun
          ELSE /\ run_results' = Put(run_results, "first", RunResult)
               /\ rpc' = "second"
               /\ NewPipelineRun(PIPELINE_ORDER[plan.k + 1], plan.end, Null, payload, Null)
    /\ UNCHANGED <<plan, mergeVars, chatVars, audioVars, htmlVars, clientVars, normVars,
                   compileVars>>

\* the second run is over
SecondRunEnds ==
    /\ rpc = "second" /\ ppc \in {"done", "failed"}
    /\ run_results' = Put(run_results, "second", RunResult)
    /\ rpc' = "compared"
    /\ NoPipelineRun
    /\ UNCHANGED <<plan, mergeVars, chatVars, audioVars, htmlVars, clientVars, normVars,
                   compileVars>>

\* the stage range, the stage k after which the work is split, and the input
Plans ==
    {[start |-> PIPELINE_ORDER[s], k |-> k, end |-> PIPELINE_ORDER[e],
      text |-> t, text_obj |-> doc, description |-> d] :
        s \in 1..Len(PIPELINE_ORDER), k \in 1..Len(PIPELINE_ORDER),
        e \in 1..Len(PIPELINE_ORDER), t \in {Null, "T"},
        doc \in {NoDoc} \cup ResumeDocs, d \in {Null, "d"}}

InitResume ==
    /\ MergeOff
    /\ ChatOff
    /\ AudioOff
    /\ HtmlOff
    /\ ClientOff
    /\ NormOff
    /\ CompileOff
    /\ rpc = "continuous"
    /\ plan \in {pl \in Plans :
                    /\ IndexOf(pl.start) <= pl.k /\ pl.k < IndexOf(pl.end)
                    /\ pl.text = "T" => ReadsText(pl.text_obj, pl.start)
                    /\ pl.description = "d" => pl.text_obj = NoDoc}
    /\ run_results = EmptyDict
    /\ ppc = "start"
    /\ start_stage = plan.start /\ end_stage = plan.end
    /\ language \in {"en", "zh"}
    /\ raw_text = plan.text /\ current = plan.text_obj /\ description = plan.description
    /\ stage = 0
    /\ tasks = <<>> /\ order = <<>>
    /\ gaStage = 0 /\ gaInput = NoDoc /\ gaOutput = NoDoc
    /\ mergedStages = {}
    /\ genCalls = 0
    /\ persist_intermediates = TRUE
    /\ stage_dir = FALSE /\ stage_files = EmptyDict
    /\ stage_calls = <<>> /\ error = "none"

NextResume ==
    \/ Validate
    \/ PreGenerate(TRUE)
    \/ StageTextGen(TRUE)
    \/ StageSegmentation1(raw_text # Null, Seg1Answer)
    \/ StageJieba(TRUE)
    \/ StageSpecRejected
    \/ StageFanOut
    \/ \E i \in 1..Len(tasks) : TaskStart(i)
    \/ \E i \in 1..Len(tasks) : TaskReturns(i, SegAnswer(tasks[i].prompt))
    \/ GatherReturns
    \/ StagePinyin(TRUE)
    \/ StageAudioOrHtml(stage = IndexOf("compile_html"))
    \/ ContinuousRunEnds
    \/ FirstRunEnds
    \/ SecondRunEnds

SpecResume == InitResume /\ [][NextResume]_vars

\* ---- annotate_audio runs on one cache directory ----
\* the injected engine, or none
TtsEngines == {"FakeTTSEngine", Null}

AudioStart(d1, d2, e1, e2) ==
    /\ MergeOff
    /\ ChatOff
    /\ PipeOff
    /\ OutputOff
    /\ runs = [r \in Runs |-> IF r = 1 THEN NewRun(d1, Null, e1) ELSE NewRun(d2, Null, e2)]
    /\ disk = <<>>
    /\ synthLog = [r \in Runs |-> <<>>]
    /\ validated = {}
    /\ failures = 0

\* one run after the other: a run is entered when the earlier runs are over
EarlierRunsOver(r) == \A q \in Runs : q < r => runs[q].pc \in {"done", "raised"}

StartLaterRun(r) == EarlierRunsOver(r) /\ StartRun(r)

InitAudio ==
    \E d1 \in AudioDocs, d2 \in AudioDocs, e1 \in TtsEngines, e2 \in TtsEngines :
        AudioStart(d1, d2, e1, e2)

NextAudio ==
    \/ \E r \in Runs : StartLaterRun(r)
    \/ \E r \in Runs : EnsureAudio(r)
    \/ \E r \in Runs : SynthOpens(r)
    \/ \E r \in Runs : SynthRaises(r)
    \/ \E r \in Runs, kind \in {"ok", "short", "zeroed"} : SynthCloses(r, kind)
    \/ \E r \in Runs, passed \in BOOLEAN : Validates(r, passed)
    \/ \E r \in Runs : PageAudio(r)
    \/ \E r \in Runs : ConcatOpens(r)
    \/ \E r \in Runs, lucky \in BOOLEAN : ConcatCloses(r, lucky)
    \/ \E r \in Runs : ConcatFails(r)
    \/ \E r \in Runs : ReturnDocument(r)

SpecAudio == InitAudio /\ [][NextAudio]_vars

\* ---- two runs at the same time on one cache directory ----
\* both runs annotate the same document, each with its own engine; the
\* engines and the file system do not fail
InitShared ==
    \E doc \in AudioDocs, e1 \in TtsEngines, e2 \in TtsEngines :
        AudioStart(doc, doc, e1, e2)

NextShared ==
    \/ \E r \in Runs : StartRun(r)
    \/ \E r \in Runs : EnsureAudio(r)
    \/ \E r \in Runs : SynthOpens(r)
    \/ \E r \in Runs : SynthCloses(r, "ok")
    \/ \E r \in Runs, passed \in BOOLEAN : Validates(r, passed)
    \/ \E r \in Runs : PageAudio(r)
    \/ \E r \in Runs : ConcatOpens(r)
    \/ \E r \in Runs, lucky \in BOOLEAN : ConcatCloses(r, lucky)
    \/ \E r \in Runs : ReturnDocument(r)

SpecShared == InitShared /\ [][NextShared]_vars

\* ---- one compile_html call ----
InitHtml ==
    /\ MergeOff
    /\ ChatOff
    /\ PipeOff
    /\ AudioOff
    /\ ResumeOff
    /\ ClientOff
    /\ NormOff
    /\ CompileOff
    /\ hpc = "start"
    /\ \E world \in AudioWorlds :
          /\ hText \in HtmlDocs(world.refs)
          /\ hSources = world.sources
    /\ hFiles = <<>>
    /\ token_info = <<>> /\ concordance = <<>>
    /\ p_idx = 0 /\ c_idx = 0

NextHtml ==
    \/ Prepare
    \/ WritePage
    \/ Concordance
    \/ WriteConcordancePage
    \/ ReturnHtml

SpecHtml == InitHtml /\ [][NextHtml]_vars

\* ---- compile_html on documents whose lemmas need encoding ----
MaxLemmaLen == 3

\* the characters of the lemmas: a quotation mark, a percent sign, a digit
\* and letters
LemmaChars == {"\"", "%", "2", "a", "B"}

\* the lemma texts that are not empty
LemmaTexts == UNION {[1..n -> LemmaChars] : n \in 1..MaxLemmaLen}

LemmaToken(lemma) == [surface |-> <<"a">>, annotations |-> [lemma |-> lemma]]

\* one page with one segment of two tokens: any lemma, and a lemma of one
\* character
SlugDocs ==
    {[l2 |-> "en",
      pages |-> << [segments |-> << [tokens |-> <<LemmaToken(x), LemmaToken(y)>>] >>] >>] :
        x \in LemmaTexts, y \in [1..1 -> LemmaChars]}

InitSlug ==
    /\ MergeOff
    /\ ChatOff
    /\ PipeOff
    /\ AudioOff
    /\ ResumeOff
    /\ ClientOff
    /\ NormOff
    /\ CompileOff
    /\ hpc = "start"
    /\ hText \in SlugDocs
    /\ hSources = [src \in AudioSources |-> "exists"]
    /\ hFiles = <<>>
    /\ token_info = <<>> /\ concordance = <<>>
    /\ p_idx = 0 /\ c_idx = 0

SpecSlug == InitSlug /\ [][NextHtml]_vars

\* ---- shapes shared by the properties of the merge ----
AnnOf(d) == Get(d, "annotations", EmptyDict)

TokensOf(d) == Get(d, "tokens", <<>>)

TokenAt(tokens, i) == IF i <= Len(tokens) THEN tokens[i] ELSE EmptyDict

\* every key of before is in after; its value is the response's non-null
\* value when the response gives one, and the old value otherwise
GrowsOnly(before, after, updates) ==
    \A k \in DOMAIN before :
        /\ k \in DOMAIN after
        /\ IF k \in DOMAIN updates /\ updates[k] # Null
           THEN after[k] = updates[k]
           ELSE after[k] = before[k]

Tidied(token) ==
    LET kept == DropNone(token)
    IN IF "annotations" \in DOMAIN kept /\ ~Truthy(kept["annotations"])
       THEN Remove(kept, "annotations")
       ELSE kept

\* C11 as stated: tokens are merged by index. The merged list is as long as
\* the longer of the two lists, merged token i is built from existing token
\* i and response token i (an empty token beyond the end of a list), and an
\* existing token without a response counterpart is kept unchanged, so the
\* existing tokens keep their order.
TokensMergedByIndexUnchanged ==
    mpc = "merged" =>
        LET base == TokensOf(mSegment)
            resp == TokensOf(mResponse)
            out == TokensOf(mMerged)
        IN /\ Len(out) = MaxOf(Len(base), Len(resp))
           /\ \A i \in 1..Len(out) :
                 out[i] = MergeToken(TokenAt(base, i), TokenAt(resp, i))
           /\ \A i \in 1..Len(base) : i > Len(resp) => out[i] = base[i]

\* C11 (amended): as above, except that an existing token without a response
\* counterpart is kept without its keys of value null and without an empty
\* annotations map; every other key and value of it is unchanged.
TokensMergedByIndex ==
    mpc = "merged" =>
        LET base == TokensOf(mSegment)
            resp == TokensOf(mResponse)
            out == TokensOf(mMerged)
        IN /\ Len(out) = MaxOf(Len(base), Len(resp))
           /\ \A i \in 1..Len(out) :
                 out[i] = MergeToken(TokenAt(base, i), TokenAt(resp, i))
           /\ \A i \in 1..Len(base) : i > Len(resp) => out[i] = Tidied(base[i])

\* two existing tokens and one response token: the first is rewritten by the
\* response, the second, annotated, is kept as it was
TokensMergedByIndexWitness ==
    /\ mpc = "merged"
    /\ Len(TokensOf(mSegment)) = 2
    /\ Len(TokensOf(mResponse)) = 1
    /\ TokensOf(mMerged)[1] # TokensOf(mSegment)[1]
    /\ TokensOf(mMerged)[2] = TokensOf(mSegment)[2]
    /\ Truthy(AnnOf(TokensOf(mSegment)[2]))

\* C12: after a stage that annotates lemma or gloss has merged its
\* responses, all tokens of a segment that share one mwe_id have the same
\* lemma and the same gloss, whatever the response holds.
MweTokensAgree ==
    mpc = "merged" =>
        \A i, j \in 1..Len(TokensOf(mMerged)) :
            LET a == AnnOf(TokensOf(mMerged)[i])
                b == AnnOf(TokensOf(mMerged)[j])
            IN (Get(a, "mwe_id", Null) # Null
                    /\ Get(a, "mwe_id", Null) = Get(b, "mwe_id", Null)) =>
                   /\ Get(a, "lemma", Null) = Get(b, "lemma", Null)
                   /\ Get(a, "gloss", Null) = Get(b, "gloss", Null)

\* ---- shapes shared by the properties of chat_json ----
AllTransient(os) == \A i \in 1..Len(os) : IsTransient(os[i])

TransientCount(os) == Cardinality({i \in 1..Len(os) : IsTransient(os[i])})

LastOutcome == outcomes[Len(outcomes)]

\* C1 as stated: never more than max_retries attempts; when every attempt
\* fails with a transient error exactly max_retries attempts are made and
\* the error raised is the one of the last attempt.
AtMostMaxRetriesAttempts ==
    /\ attempt <= max_retries
    /\ (cpc = "raised" /\ AllTransient(outcomes)) =>
          /\ attempt = max_retries
          /\ result = Outcome("raised", LastOutcome, attempt)

\* C1 (amended): with max_retries = M at most max(M, 1) attempts are made
\* (the first attempt is made before M is consulted), plus one when the
\* client switches from the async to the legacy mode during the call, which
\* happens at most once; when every attempt fails with a transient error
\* exactly max(M, 1) attempts are made and the error raised is the one of
\* the last attempt.
AttemptsBoundedUpToFallback ==
    /\ switched <= 1
    /\ attempt <= MaxOf(max_retries, 1) + switched
    /\ Len(outcomes) <= attempt
    /\ (cpc = "raised" /\ AllTransient(outcomes)) =>
          /\ attempt = MaxOf(max_retries, 1)
          /\ Len(outcomes) = attempt
          /\ result = Outcome("raised", LastOutcome, attempt)

\* every one of three attempts failed with a transient error
AttemptsBoundedWitness ==
    /\ cpc = "raised"
    /\ max_retries = 3
    /\ attempt = 3
    /\ AllTransient(outcomes)
    /\ result = Outcome("raised", outcomes[3], 3)

\* C2: the k-th sleep of a call lasts 2^(k-1) seconds; there is one sleep
\* for each transient failure that was retried, hence none before the first
\* attempt and none after the failure that ends the call.
BackoffDoubles ==
    /\ \A k \in 1..Len(sleeps) : sleeps[k] = 2 ^ (k - 1)
    /\ (attempt <= 1 /\ outcomes = <<>>) => sleeps = <<>>
    /\ Len(sleeps) = TransientCount(outcomes)
                     - (IF cpc = "raised" /\ IsTransient(LastOutcome) THEN 1 ELSE 0)
    /\ cpc = "sleeping" => attempt < max_retries
    /\ cpc \in {"returned", "raised"} => Len(sleeps) <= attempt - 1

\* three transient failures with max_retries = 3: sleeps of 1 and 2, none
\* after the third failure
BackoffDoublesWitness ==
    /\ cpc = "raised"
    /\ attempt = 3
    /\ sleeps = <<1, 2>>
    /\ IsTransient(LastOutcome)

\* C3: a body that is not JSON ends the call at once with a ValueError: it
\* is the outcome of the last attempt ever made, and every sleep of the call
\* belongs to a transient failure before it.
NonJsonFailsImmediately ==
    \A i \in 1..Len(outcomes) :
        outcomes[i] = "non_json" =>
            /\ i = Len(outcomes)
            /\ attempt = i
            /\ cpc = "raised"
            /\ result = Outcome("raised", "ValueError", i)
            /\ Len(sleeps) = TransientCount(outcomes)

\* the first attempt returns a non-JSON body although three are allowed
NonJsonFailsImmediatelyWitness ==
    /\ max_retries = 3
    /\ outcomes = <<"non_json">>
    /\ cpc = "raised"
    /\ sleeps = <<>>

\* C4: heartbeats only report. The request of an attempt is started once,
\* is never cancelled by a heartbeat timeout, its outcome is what the
\* attempt observes, and every heartbeat is emitted while it is pending.
HeartbeatOnlyReports ==
    /\ reqStarts <= 1
    /\ heartbeats > 0 => reqStarts = 1
    /\ req # "cancelled"
    /\ (req = "done" /\ Len(outcomes) = attempt /\ attempt > 0) => LastOutcome = reqOutcome
    /\ lateBeats = 0

\* ---- shapes shared by the properties of a run of the pipeline ----
SurfaceOf(d) == Get(d, "surface", "")

\* the calls of the latest generic_annotation call made for segment (p, s)
CallsFor(p, s) ==
    {i \in 1..Len(tasks) :
        tasks[i].stage = gaStage /\ tasks[i].page = p /\ tasks[i].seg = s}

ResponseFor(p, s) ==
    IF CallsFor(p, s) = {} THEN EmptyDict
    ELSE tasks[CHOOSE i \in CallsFor(p, s) : TRUE].resp

TotalSegments(doc) ==
    SumSeq([p \in 1..Len(PagesIn(doc)) |-> Len(SegmentsIn(PagesIn(doc)[p]))])

\* C5: when the caller cancels a run while segment calls are outstanding,
\* every outstanding segment task is cancelled and so is the in-flight
\* provider request of each of them: after the cancellation no segment task
\* is pending and no request started by the run is still running.
CancelStopsEveryRequest ==
    ppc = "cancelled" =>
        \A i \in 1..Len(tasks) :
            /\ tasks[i].state \notin {"created", "running"}
            /\ tasks[i].req # "running"

\* C6: generic_annotation issues exactly one chat_json call for every
\* (page index, segment index) pair of its input document, with the prompt
\* build_prompt(that segment); the number of calls is the total number of
\* segments, so a document without segments issues no call.
OneCallPerSegment ==
    gaStage # 0 =>
        /\ LocalCount = TotalSegments(gaInput)
        /\ \A p \in 1..Len(PagesIn(gaInput)) :
              \A s \in 1..Len(SegmentsIn(PagesIn(gaInput)[p])) :
                  /\ Cardinality(CallsFor(p, s)) = 1
                  /\ \A i \in CallsFor(p, s) :
                        tasks[i].prompt
                            = BuildPrompt(PIPELINE_ORDER[gaStage], SegAt(gaInput, p, s))

\* a two-page document, one segment on each page: two calls, one per pair,
\* both answered
OneCallPerSegmentWitness ==
    /\ gaStage # 0
    /\ Len(PagesIn(gaInput)) = 2
    /\ LocalCount = 2
    /\ CallsFor(1, 1) # {} /\ CallsFor(2, 1) # {}
    /\ \A i \in 1..LocalCount : LocalTasks[i].state = "returned"

\* C7: for every order in which the segment calls of a stage complete, the
\* merged document has the pages and segments of the input in the same
\* order, and segment (p, s) of the output is the merge of segment (p, s) of
\* the input with the response to the call issued for (p, s), and with no
\* other response.
MergedByPosition ==
    gaOutput # NoDoc =>
        /\ Len(PagesIn(gaOutput)) = Len(PagesIn(gaInput))
        /\ \A p \in 1..Len(PagesIn(gaInput)) :
              LET before == PagesIn(gaInput)[p]
                  after == PagesIn(gaOutput)[p]
              IN /\ SurfaceOf(after) = SurfaceOf(before)
                 /\ Len(SegmentsIn(after)) = Len(SegmentsIn(before))
                 /\ \A s \in 1..Len(SegmentsIn(before)) :
                       SegmentsIn(after)[s]
                           = MergeSegment(SegmentsIn(before)[s], ResponseFor(p, s))

\* two calls that completed in the reverse of their issue order with
\* different responses, merged
MergedByPositionWitness ==
    /\ gaOutput # NoDoc
    /\ LocalCount = 2
    /\ LocalOrder = <<2, 1>>
    /\ LocalTasks[1].resp # LocalTasks[2].resp

\* C8: stages are separated by barriers. The responses of a stage are merged
\* only when every segment call of that stage has returned, and a call of a
\* later stage exists only when every call of each earlier stage has
\* returned and that stage has been merged.
StagesSeparatedByBarriers ==
    /\ \A i \in 1..Len(tasks) :
          tasks[i].stage \in mergedStages => tasks[i].state = "returned"
    /\ \A i, j \in 1..Len(tasks) :
          tasks[i].stage < tasks[j].stage =>
              /\ tasks[i].state = "returned"
              /\ tasks[i].stage \in mergedStages
    /\ (gaStage # 0 /\ stage > gaStage) => gaStage \in mergedStages

\* a call of stage lemma running after the two calls of stage mwe
StagesSeparatedByBarriersWitness ==
    \E i, j, k \in 1..Len(tasks) :
        /\ i # j
        /\ tasks[i].stage = IndexOf("mwe") /\ tasks[j].stage = IndexOf("mwe")
        /\ tasks[k].stage = IndexOf("lemma")
        /\ tasks[k].state = "running"

\* C10: the surface of the text, of every page, of every segment and of
\* every token is the same before and after an annotation stage, whatever
\* the responses hold.
SurfacePreserved ==
    gaOutput # NoDoc =>
        /\ SurfaceOf(gaOutput) = SurfaceOf(gaInput)
        /\ Len(PagesIn(gaOutput)) = Len(PagesIn(gaInput))
        /\ \A p \in 1..Len(PagesIn(gaInput)) :
              LET before == PagesIn(gaInput)[p]
                  after == PagesIn(gaOutput)[p]
              IN /\ SurfaceOf(after) = SurfaceOf(before)
                 /\ Len(SegmentsIn(after)) = Len(SegmentsIn(before))
                 /\ \A s \in 1..Len(SegmentsIn(before)) :
                       /\ SurfaceOf(SegmentsIn(after)[s]) = SurfaceOf(SegmentsIn(before)[s])
                       /\ \A t \in 1..Len(TokensOf(SegmentsIn(before)[s])) :
                             /\ t <= Len(TokensOf(SegmentsIn(after)[s]))
                             /\ SurfaceOf(TokensOf(SegmentsIn(after)[s])[t])
                                   = SurfaceOf(TokensOf(SegmentsIn(before)[s])[t])

\* C13: when a segment call of a stage has failed (after the retries of the
\* client), the run can only end with that failure: it is still waiting in
\* the gather of that stage, or it has failed (or the caller cancelled it).
\* The stage is never merged, no segment gets a second call in that stage,
\* and no call of a later stage exists.
FailurePropagates ==
    \A i \in 1..Len(tasks) :
        tasks[i].state = "raised" =>
            /\ stage = tasks[i].stage
            /\ ppc \in {"gathering", "failed", "cancelled"}
            /\ tasks[i].stage \notin mergedStages
            /\ \A j \in 1..Len(tasks) :
                  /\ tasks[j].stage <= tasks[i].stage
                  /\ (j # i /\ tasks[j].stage = tasks[i].stage) =>
                        <<tasks[j].page, tasks[j].seg>> # <<tasks[i].page, tasks[i].seg>>

\* stage mwe of a run that was to go on to later stages: one call failed,
\* its sibling returned, and the run has failed
FailurePropagatesWitness ==
    /\ ppc = "failed"
    /\ \E i, j \in 1..Len(tasks) :
          /\ tasks[i].state = "raised"
          /\ tasks[j].state = "returned"
          /\ tasks[i].stage = IndexOf("mwe")
          /\ tasks[j].stage = IndexOf("mwe")
    /\ IndexOf(end_stage) > stage

\* C14: in the stages that configure a concurrency limit (translation and
\* gloss, limit 8) the number of calls in flight at the same time never
\* exceeds the limit, and every segment call is still issued: once the run
\* has entered such a stage and is past its fan-out, there is a call for
\* every segment of the document.
LimitedStagesIssueEveryCall ==
    \A name \in {"translation", "gloss"} :
        LET calls == {i \in 1..Len(tasks) : tasks[i].stage = IndexOf(name)}
        IN /\ Cardinality({i \in calls : tasks[i].req = "running"}) <= ConcurrencyLimit
           /\ (stage = IndexOf(name) /\ ppc \in {"gathering", "failed", "cancelled", "done"}) =>
                 Cardinality(calls) = TotalSegments(current)

\* ---- shapes shared by the properties of annotate_audio ----
\* the key of the token or segment an annotation is attached to
OutKey(run, o) ==
    CacheKey(o.level, run.voice, Strip(ItemText(run.doc, WorkItemsOf[run.doc][o.idx])))

\* the engine the run was configured with
ConfiguredEngine(run) ==
    IF run.tts_engine # Null THEN run.tts_engine ELSE "SimpleTTSEngine"

\* the audio files of the first n segments of page p, blank segments left out
RECURSIVE SegPathsUpTo(_, _, _)
SegPathsUpTo(run, p, n) ==
    IF n = 0
    THEN <<>>
    ELSE LET text == Strip(run.doc.pages[p].segments[n].surface)
         IN IF text = <<>>
            THEN SegPathsUpTo(run, p, n - 1)
            ELSE Append(SegPathsUpTo(run, p, n - 1),
                        FileName(CacheKey("segment", run.voice, text)))

ExpectedSegPaths(run, p) == SegPathsUpTo(run, p, Len(run.doc.pages[p].segments))

\* C15: a request for a key whose synthesis has already succeeded (the
\* file passed validation), in the same run or in an earlier run on the
\* same cache directory, makes no synthesis call, and the path returned
\* for a key is always the file named after the key; a run on the
\* document "echo echo" with the tokens echo, blank, echo, on an empty
\* cache directory and with no failure, makes exactly 2 synthesis calls.
SynthesizedAtMostOnce ==
    /\ \A r \in Runs : \A i \in 1..Len(synthLog[r]) : ~synthLog[r][i].repeat
    /\ \A r \in Runs : \A i \in 1..Len(runs[r].out) :
          runs[r].out[i].level # "page" =>
              runs[r].out[i].path = FileName(OutKey(runs[r], runs[r].out[i]))
    /\ (runs[1].doc = EchoDoc /\ runs[1].pc = "done" /\ failures = 0) =>
          /\ Len(synthLog[1]) = 2
          /\ synthLog[1][1].key = CacheKey("token", Null, Echo)
          /\ synthLog[1][2].key = CacheKey("segment", Null, Echo \o <<" ">> \o Echo)

\* both runs have annotated "echo echo": two calls in the first run, none
\* in the second, and the second run has its three audio annotations
SynthesizedAtMostOnceWitness ==
    /\ runs[1].doc = EchoDoc /\ runs[2].doc = EchoDoc
    /\ runs[1].pc = "done" /\ runs[2].pc = "done"
    /\ Len(synthLog[1]) = 2
    /\ Len(synthLog[2]) = 0
    /\ Len(runs[2].out) = 4
    /\ runs[2].out[1].path = runs[1].out[2].path

\* C16: the offline engine is used only for the item whose synthesis or
\* validation failed, and once: the first synthesis call of every item is
\* made with the engine the run was configured with, and only the second
\* call of an item is made with the offline engine.
FallbackForFailedItemOnly ==
    \A r \in Runs : \A i \in 1..Len(synthLog[r]) :
        /\ synthLog[r][i].attempt = 1 => synthLog[r][i].engine = ConfiguredEngine(runs[r])
        /\ synthLog[r][i].attempt = 2 =>
              /\ synthLog[r][i].engine = "SimpleTTSEngine"
              /\ i > 1
              /\ synthLog[r][i - 1].attempt = 1
              /\ synthLog[r][i - 1].key = synthLog[r][i].key

\* C17: when the primary synthesis and the offline fallback both fail for
\* an item, the run is not aborted: no run ends with an exception.
FailureConfinedToItem ==
    \A r \in Runs : runs[r].pc # "raised"

\* the page annotations of a run
PageAnnotations(run) ==
    {i \in 1..Len(run.out) : run.out[i].level = "page"}

\* the files at paths, as they are on disk
FilesAt(paths) == [i \in 1..Len(paths) |-> disk[paths[i]]]

ConcatErrorConfinedToPage ==
    \A r \in Runs : \A i \in PageAnnotations(runs[r]) :
        LET page == WorkItemsOf[runs[r].doc][runs[r].out[i].idx].page
            paths == ExpectedSegPaths(runs[r], page)
            file == disk[runs[r].out[i].path]
        IN /\ file.complete
           /\ file.frames = ConcatFrames(FilesAt(paths))

\* C20: two runs that share the cache directory need no lock: a file is
\* complete when a run records it in an annotation, the segment files are
\* complete when a run concatenates them, and when both runs have returned
\* every file of the directory is a complete valid audio file.
SharedCacheNeedsNoLock ==
    [][\A r \in Runs :
        /\ Len(runs'[r].out) > Len(runs[r].out) =>
              disk'[runs'[r].out[Len(runs'[r].out)].path].complete
        /\ (runs[r].pc = "concatWriting" /\ runs'[r].pc = "item") =>
              \A i \in 1..Len(runs[r].seg_paths) : disk[runs[r].seg_paths[i]].complete
        /\ (\A q \in Runs : runs'[q].pc = "done") =>
              \A path \in DOMAIN disk' :
                  /\ disk'[path].complete
                  /\ disk'[path].params # "zeroed"
                  /\ Len(disk'[path].frames) > 0
      ]_vars

\* ---- shapes shared by the properties of compile_html ----
HtmlSegments == {<<p, s>> : p \in 1..MaxPages, s \in 1..MaxSegments} \cap
                {ps \in (1..Len(HtmlPages)) \X (1..MaxSegments) :
                    ps[2] <= Len(SegmentsIn(HtmlPages[ps[1]]))}

HtmlTokenPositions ==
    {<<ps[1], ps[2], t>> : ps \in HtmlSegments, t \in 1..MaxTokens} \cap
    {pst \in (1..MaxPages) \X (1..MaxSegments) \X (1..MaxTokens) :
        /\ <<pst[1], pst[2]>> \in HtmlSegments
        /\ pst[3] <= Len(TokensAt(pst[1], pst[2]))}

AnnAt(pst) == Get(TokensAt(pst[1], pst[2])[pst[3]], "annotations", EmptyDict)

\* the token carries a lemma: the key is there and its value is not empty
CarriesLemma(pst) == "lemma" \in DOMAIN AnnAt(pst) /\ AnnAt(pst).lemma # <<>>

EntriesOf(lemma) == {i \in 1..Len(concordance) : concordance[i].lemma = lemma}

OccurrencesIn(i, p, s) ==
    {o \in 1..Len(concordance[i].occurrences) :
        /\ concordance[i].occurrences[o].page_index = p - 1
        /\ concordance[i].occurrences[o].segment_index = s - 1}

ConcordanceBuilt == hpc \in {"concordance", "returned"}

\* C21: in the concordance, an MWE whose lemma is carried by one or by several
\* tokens of a segment has exactly one occurrence for that segment in the
\* list of that lemma, and it has one for every segment and page it is in.
MweListedOncePerSegment ==
    ConcordanceBuilt =>
        \A pst \in HtmlTokenPositions :
            (CarriesLemma(pst) /\ "mwe_id" \in DOMAIN AnnAt(pst)) =>
                \E i \in EntriesOf(AnnAt(pst).lemma) :
                    Cardinality({o \in OccurrencesIn(i, pst[1], pst[2]) :
                        concordance[i].occurrences[o].mwe_id = AnnAt(pst).mwe_id}) = 1

\* two member tokens in one segment and a member token in another segment
MweListedOncePerSegmentWitness ==
    /\ hpc = "returned"
    /\ \E a \in HtmlTokenPositions, b \in HtmlTokenPositions, c \in HtmlTokenPositions :
          /\ a[1] = b[1] /\ a[2] = b[2] /\ a[3] # b[3]
          /\ <<c[1], c[2]>> # <<a[1], a[2]>>
          /\ \A pst \in {a, b, c} : CarriesLemma(pst) /\ "mwe_id" \in DOMAIN AnnAt(pst)
          /\ \E i \in EntriesOf(AnnAt(a).lemma) : Len(concordance[i].occurrences) = 2

\* C22: the concordance has exactly one entry for every lemma carried by a
\* token of the document and no other entry, every token with a lemma and
\* without mwe_id is exactly one occurrence of the entry of its lemma, and
\* the entries are in the order of their lower-cased lemmas.
OneEntryPerLemmaInOrder ==
    ConcordanceBuilt =>
        /\ {concordance[i].lemma : i \in 1..Len(concordance)} =
              {AnnAt(pst).lemma : pst \in {q \in HtmlTokenPositions : CarriesLemma(q)}}
        /\ \A i \in 1..Len(concordance) : EntriesOf(concordance[i].lemma) = {i}
        /\ \A pst \in HtmlTokenPositions :
              (CarriesLemma(pst) /\ "mwe_id" \notin DOMAIN AnnAt(pst)) =>
                  \A i \in 1..Len(concordance) :
                      Cardinality({o \in 1..Len(concordance[i].occurrences) :
                          concordance[i].occurrences[o].token_id =
                              TokenIdAt(pst[1], pst[2], pst[3])}) =
                      (IF concordance[i].lemma = AnnAt(pst).lemma THEN 1 ELSE 0)
        /\ \A i \in 1..Len(concordance), j \in 1..Len(concordance) :
              i < j => ~StrLess(Lower(concordance[j].lemma), Lower(concordance[i].lemma))

\* a lemma in upper case that comes after a lemma in lower case
OneEntryPerLemmaInOrderWitness ==
    /\ hpc = "returned"
    /\ \E i \in 1..Len(concordance), j \in 1..Len(concordance) :
          /\ i < j
          /\ StrLess(concordance[j].lemma, concordance[i].lemma)
          /\ \E o \in 1..Len(concordance[j].occurrences) :
                concordance[j].occurrences[o].mwe_id = <<>>

PageWritten(p) == PageFile(p) \in DOMAIN hFiles

ElementAt(pst) == hFiles[PageFile(pst[1])].segments[pst[2]].tokens[pst[3]]

\* C23: the element rendered for a token with a lemma has an attribute whose
\* value is the percent-encoded slug of the lemma, the slug in the name of
\* the concordance file of that lemma.
TokenCarriesEncodedSlug ==
    \A pst \in HtmlTokenPositions :
        (PageWritten(pst[1]) /\ CarriesLemma(pst)) =>
            /\ \E a \in DOMAIN ElementAt(pst).attrs :
                  ElementAt(pst).attrs[a] = EncodeLemmaForFilename(AnnAt(pst).lemma)
            /\ hpc = "returned" =>
                  ConcordanceFile(EncodeLemmaForFilename(AnnAt(pst).lemma)) \in DOMAIN hFiles

IsPageFile(path) == path[Len(path)][1] = "page_"

\* C24: the page files written are page_1.html .. page_N.html for the N
\* pages of the document, one for each page and no other, and the four
\* links of every page name a page in 1..N.
OnePageFilePerPage ==
    /\ {path \in DOMAIN hFiles : IsPageFile(path)} = {PageFile(n) : n \in 1..p_idx}
    /\ p_idx <= Len(HtmlPages)
    /\ hpc \in {"concordance", "returned"} => p_idx = Len(HtmlPages)
    /\ \A n \in 1..p_idx :
          \A link \in {"first", "prev", "next", "last"} :
              hFiles[PageFile(n)].nav[link] \in 1..Len(HtmlPages)

\* two pages: the first has no previous page, the last no next page
OnePageFilePerPageWitness ==
    /\ hpc = "returned"
    /\ Len(HtmlPages) = 2
    /\ hFiles[PageFile(1)].nav.prev = 1 /\ hFiles[PageFile(1)].nav.next = 2
    /\ hFiles[PageFile(2)].nav.prev = 1 /\ hFiles[PageFile(2)].nav.next = 2

\* the references to audio in a written page, each with the file the
\* document names at that place
EmittedOnPage(p) ==
    LET page == hFiles[PageFile(p)]
    IN {<<AudioRef(HtmlPages[p]), page.audio>>}
       \cup {<<AudioRef(SegmentsIn(HtmlPages[p])[s]), page.segments[s].audio>> :
                s \in 1..Len(page.segments)}
       \cup {<<AudioRef(TokensAt(pst[1], pst[2])[pst[3]]),
               Get(Get(ElementAt(pst), "attrs", EmptyDict), "data-audio", <<>>)>> :
                pst \in {q \in HtmlTokenPositions : q[1] = p}}

Emitted == UNION {EmittedOnPage(p) : p \in {q \in 1..Len(HtmlPages) : PageWritten(q)}}

\* C25 as stated: every audio file the document refers to is copied into
\* audio/ under the HTML root under a name made of the hash of its path,
\* and every reference in the HTML is the path of that copy.
AudioCopiedUnderHtmlRoot ==
    \A e \in Emitted :
        e[1] # <<>> =>
            /\ CopyPath(AudioDirUnderHtml, e[1]) \in DOMAIN hFiles
            /\ e[2] = RelPath(CopyPath(AudioDirUnderHtml, e[1]), HtmlRoot)

\* C25: every audio file the document refers to that exists and can be
\* copied is copied into audio/ beside html/ under the run root, under a
\* name made of the hash of its path, and every reference to it in the HTML
\* is ../audio/<name>; a file that is missing or cannot be copied is
\* referred to by its own path relative to the HTML root; the same file has
\* the same reference wherever it is referred to.
AudioCopiedBesideHtmlRoot ==
    /\ \A e \in Emitted :
          /\ e[1] = <<>> => e[2] = <<>>
          /\ (e[1] # <<>> /\ e[1] \in DOMAIN hSources /\ hSources[e[1]] = "exists") =>
                /\ RunRoot \o << <<"audio">>, Sha1Hex(e[1]) >> \in DOMAIN hFiles
                /\ hFiles[RunRoot \o << <<"audio">>, Sha1Hex(e[1]) >>] = [copy_of |-> e[1]]
                /\ e[2] = << <<"..">>, <<"audio">>, Sha1Hex(e[1]) >>
          /\ (e[1] # <<>> /\ ~(e[1] \in DOMAIN hSources /\ hSources[e[1]] = "exists")) =>
                e[2] = << <<"..">>, <<"..">> >> \o e[1]
    /\ \A e \in Emitted, f \in Emitted : e[1] = f[1] => e[2] = f[2]
    /\ \A path \in DOMAIN hFiles :
          path[Len(path)][1] = "sha1" =>
              /\ SubSeq(path, 1, Len(path) - 1) = RunRoot \o << <<"audio">> >>
              /\ \E e \in Emitted : hFiles[path] = [copy_of |-> e[1]]

\* a copied file referred to from two places, and a file that is not copied
AudioCopiedBesideHtmlRootWitness ==
    /\ hpc = "returned"
    /\ \E e \in Emitted, f \in Emitted :
          /\ e[1] = SegSource /\ f[1] = TokSource
          /\ e[2] = << <<"..">>, <<"audio">>, Sha1Hex(SegSource) >>
          /\ f[2] = << <<"..">>, <<"..">> >> \o TokSource

\* ---- shapes shared by the properties of run_full_pipeline's stage range ----
\* the position of a stage name in the order, 0 for an unknown name
StagePosition(name) == IF name \in StageNames THEN IndexOf(name) ELSE 0

\* the requested range is not a range of stages: a name is unknown, or the
\* start stage comes after the end stage
BadStageRange ==
    \/ start_stage \notin StageNames
    \/ end_stage \notin StageNames
    \/ StagePosition(start_stage) > StagePosition(end_stage)

\* the stage functions that were called, by position in stage_calls
RanCalls == {i \in 1..Len(stage_calls) : stage_calls[i].ran}

\* C26: a run whose start or end stage is unknown, or whose start stage
\* comes after its end stage, is rejected with a validation error before any
\* stage function is called and before anything is written (no model call,
\* no segment task, no stages/ directory, no stage file); a run whose stages
\* are known and in order, start_stage = end_stage included, is never
\* rejected with such an error.
BadStageRangeRejectedFirst ==
    ppc # "start" =>
        IF BadStageRange
        THEN /\ ppc = "failed"
             /\ error \in RangeErrors
             /\ genCalls = 0 /\ tasks = <<>> /\ stage_calls = <<>>
             /\ ~stage_dir /\ stage_files = EmptyDict
             /\ current \in {NoDoc} \cup PipeDocs
        ELSE error \notin RangeErrors

\* a run asked to persist, given a document, with its start stage after its
\* end stage, has been rejected
BadStageRangeRejectedFirstWitness ==
    /\ ppc = "failed"
    /\ error = "start_stage must come before end_stage"
    /\ persist_intermediates /\ current # NoDoc
    /\ start_stage = "lemma" /\ end_stage = "mwe"

\* the run has called no stage function: no model call of generate_text, no
\* segment task, no entry of stage_calls that ran
NoExternalCall == genCalls = 0 /\ tasks = <<>> /\ RanCalls = {}

\* C27 (as stated): when the input does not match what start_stage requires
\* (a stage after segmentation_phase_1 without a document, or
\* segmentation_phase_1 without raw text), the run raises a stage-input
\* error before any external call is made: a run that carries a stage-input
\* error has called nothing, and a run started after segmentation_phase_1
\* without a document never calls anything.
StageInputErrorBeforeAnyCall ==
    /\ error \in InputErrors => NoExternalCall
    /\ (/\ ~BadStageRange
        /\ StagePosition(start_stage) > StagePosition("segmentation_phase_1")
        /\ current = NoDoc) => NoExternalCall

\* ---- shapes shared by the properties of the stage loop ----
\* the stage names of stage_calls, in order
EnteredStages == [i \in 1..Len(stage_calls) |-> stage_calls[i].stage]

\* the stages from start_stage to end_stage, in the fixed order
RequestedStages ==
    SubSeq(PIPELINE_ORDER, StagePosition(start_stage), StagePosition(end_stage))

\* the latest stage function called before entry i, 0 if there is none
PreviousRan(i) ==
    LET before == {0} \cup {j \in RanCalls : j < i}
    IN CHOOSE j \in before : \A k \in before : k <= j

\* C28 (as stated): in every run the executed stages are exactly the stages
\* from start_stage to end_stage, in the fixed stage order, and each executed
\* stage receives as input what the previously executed stage returned: a
\* run that has returned has entered the requested stages, each once and in
\* order, and every stage function called after another was given the
\* other's output.
StagesRunOnceInOrder ==
    ppc = "done" =>
        /\ EnteredStages = RequestedStages
        /\ \A i \in RanCalls :
              PreviousRan(i) # 0 =>
                  stage_calls[i].input = stage_calls[PreviousRan(i)].output

\* the stages of the requested range the loop has left behind
CompletedPositions ==
    IF ppc = "done" THEN StagePosition(start_stage)..StagePosition(end_stage)
    ELSE IF ppc \in {"stage", "gathering"} THEN StagePosition(start_stage)..(stage - 1)
    ELSE {}

\* the latest entry of stage_calls for a stage, 0 if there is none
LastEntered(name) ==
    LET at == {0} \cup {i \in 1..Len(stage_calls) : stage_calls[i].stage = name}
    IN CHOOSE i \in at : \A k \in at : k <= i

\* C29 (as stated): with persist_intermediates set, the file
\* stages/<stage>.json exists for every stage between start_stage and
\* end_stage of a successful run and holds that stage's output, and it is
\* written after the stage completes and before the next stage starts: as
\* soon as the loop has left a stage behind, the file of that stage exists
\* and holds what the stage returned.
EveryStagePersisted ==
    persist_intermediates =>
        \A s \in CompletedPositions :
            LET name == PIPELINE_ORDER[s]
            IN /\ name \in DOMAIN stage_files
               /\ LastEntered(name) # 0
               /\ JsonLoads(stage_files[name]) = stage_calls[LastEntered(name)].output

\* C30 (as stated): for every stage k, running the stages up to k with
\* persistence and then starting a second run at stage k + 1 from the
\* persisted JSON of stage k produces the same final document as one
\* continuous run, when the model gives identical responses: once the run up
\* to k has returned and the second run is over (or could not be started),
\* its final document is the final document of the continuous run.
ResumedRunMatchesContinuous ==
    (rpc = "compared" /\ "second" \in DOMAIN run_results) =>
        run_results["second"].text = run_results["continuous"].text

\* ---- shapes shared by the properties of the client construction ----
\* a client of this installation can reach the provider: it was injected, or
\* a key is configured and a healthy async SDK or a supported legacy API is
\* installed
UsableConfiguration ==
    \/ install.injected
    \/ /\ install.api_key
       /\ install.sdk = "healthy" \/ install.legacy = "old"

\* C31 (as stated): a configuration error is detected at client
\* construction: when credentials are missing, or neither a usable async SDK
\* nor a supported legacy API is available, constructing the client fails, so
\* no chat_json attempt is ever started with an unusable configuration.
ConfigurationErrorAtConstruction ==
    /\ (cpc # "new" /\ ~UsableConfiguration) => cpc = "not_constructed"
    /\ attempt > 0 => UsableConfiguration

\* ---- shapes shared by the properties of the stage results ----
\* what the stage normalizes: the answer of the provider in text_gen and
\* segmentation_phase_1, the document it was given in the other stages
NormalizedSource ==
    IF nCall.stage \in {"text_gen", "segmentation_phase_1"} THEN nCall.response
    ELSE nCall.text

\* C32 (as stated): the document returned by every stage has the top-level
\* keys l2, pages and annotations, for every input document and every model
\* response: l2 defaults to the configured language (in text_gen, to the
\* language of the description when it names one), pages to the empty list
\* and annotations to the empty map when they are missing or null.
ReturnedDocumentHasKeys ==
    npc = "returned" =>
        /\ {"l2", "pages", "annotations"} \subseteq DOMAIN nReturned
        /\ Get(nReturned, "l2", Null) # Null
        /\ Get(nReturned, "annotations", NoDoc) # NoDoc
        /\ (/\ Get(NormalizedSource, "l2", Null) = Null
            /\ nCall.stage = "text_gen" => Get(nCall.description, "l2", Null) = Null)
              => Get(nReturned, "l2", Null) = nCall.language
        /\ "pages" \notin DOMAIN NormalizedSource => Get(nReturned, "pages", <<>>) = <<>>
        /\ Get(NormalizedSource, "annotations", NoDoc) = NoDoc
              => Get(nReturned, "annotations", NoDoc) = EmptyDict

\* ---- the run directories of a recompiled project ----
\* the runs made before the last request that hold the stage file
EarlierRunsWith(name) ==
    {r \in 1..(compiled.output_dir - 1) : name \in run_dirs[r]}

\* C33 (as stated): when a project is recompiled starting at a stage after
\* segmentation_phase_1, the upstream stage output is taken from the most
\* recent earlier run that contains it, also when a newer run exists that
\* lacks it, and it is present in the stages directory of the newly created
\* run before the pipeline is started on that run.
UpstreamReusedFromEarlierRun ==
    (/\ compiled # NoDoc
     /\ StagePosition(compiled.start_stage) > IndexOf("segmentation_phase_1")
     /\ EarlierRunsWith(UpstreamStage(compiled.start_stage)) # {})
        => LET earlier == EarlierRunsWith(UpstreamStage(compiled.start_stage))
           IN /\ compiled.text_obj_from = CHOOSE r \in earlier : \A q \in earlier : q <= r
              /\ UpstreamStage(compiled.start_stage) \in run_dirs[compiled.output_dir]

\* ---- the telemetry of one chat_json call ----
\* the positions of the attempt events
AttemptEventsAt == {i \in DOMAIN events : events[i][2] = "openai.chat attempt"}

\* the position of the event 'openai.chat attempt n'
AttemptEventAt(n) == CHOOSE i \in AttemptEventsAt : events[i][3] = n

\* attempt n failed with a transient error and was retried
RetriedAttempts ==
    {n \in DOMAIN outcomes : IsTransient(outcomes[n]) /\ ~RetriesExhausted(n, max_retries)}

\* the attempt events are numbered 1, 2, ... without gaps, and the event of
\* an attempt is there when its request is in flight
AttemptEventsNumbered ==
    /\ Cardinality(AttemptEventsAt) = attempt
    /\ \A i \in AttemptEventsAt :
            events[i][3] = Cardinality({j \in AttemptEventsAt : j <= i})
    /\ req = "pending" => attempt \in {events[i][3] : i \in AttemptEventsAt}

\* one retry event for every retried attempt, after its attempt event and
\* before the next attempt event
RetryEventsPlaced ==
    \A n \in RetriedAttempts :
        LET at == {i \in DOMAIN events : events[i] = Event("warn", "openai retry", n)}
        IN /\ Cardinality(at) = 1
           /\ \A i \in at :
                /\ AttemptEventAt(n) < i
                /\ n + 1 \in {events[j][3] : j \in AttemptEventsAt} => i < AttemptEventAt(n + 1)

\* the last event of a call that raised is an error event
FailedCallEndsWithErrorEvent ==
    cpc = "raised" => /\ events # <<>>
                      /\ events[Len(events)][1] = "error"

\* C34 (as stated): the telemetry events of one chat_json call are ordered:
\* attempt N emits 'openai.chat attempt N' before its request is issued, with
\* N = 1, 2, ... without gaps; every retried transient failure emits one retry
\* event after its attempt event and before the next attempt event; a call
\* that fails emits an error event as its last event.
TelemetryEventsOrdered ==
    /\ AttemptEventsNumbered
    /\ RetryEventsPlaced
    /\ FailedCallEndsWithErrorEvent

\* ---- failures that are not retried ----
\* the exceptions of an attempt that are neither a transient provider error
\* nor an import or length-finish failure
UnexpectedErrors ==
    ErrorKinds \ (TransientErrors \cup NamedTransientErrors
                    \cup {"ImportError", "LengthFinishReasonError"})

ChatJsonTerminates ==
    /\ <>(cpc \in {"returned", "raised", "cancelled"})
    /\ [](/\ switched <= 1
          /\ max_retries >= 1 => attempt <= max_retries + 1)
    /\ [][mode = "legacy" => mode' = "legacy"]_vars

\* a transient failure, then the fallback, then a transient failure again:
\* three attempts with max_retries = 2
ChatJsonTerminatesWitness ==
    /\ max_retries = 2
    /\ outcomes = <<"RateLimitError", "ImportError", "RateLimitError">>
    /\ attempt = 3
    /\ switched = 1
    /\ cpc = "raised"

\* ---- the sibling calls of a failed segment call ----
\* C37 (as stated): when one segment call of a stage fails and
\* generic_annotation returns that failure to its caller, no other segment
\* call of that stage is still running: every sibling call has completed or
\* has been cancelled before the failure is reported.
SiblingCallsSettledAtFailure ==
    (ppc = "failed" /\ \E i \in 1..LocalCount : LocalTasks[i].state = "raised")
        => \A i \in 1..LocalCount :
                /\ LocalTasks[i].state \notin {"created", "running"}
                /\ LocalTasks[i].req # "running"

\* ---- the files a run takes from the cache directory ----
\* run r takes the file of the current token or segment from disk: the key
\* is not in its cache dict and no synthesis is made
ReusesAudioFile(r) ==
    /\ runs[r].pc = "item"
    /\ runs[r].idx <= Len(WorkItemsOf[runs[r].doc])
    /\ CurrentItem(runs[r]).kind \in {"token", "segment"}
    /\ Len(runs'[r].out) > Len(runs[r].out)
    /\ CurrentKey(runs[r]) \notin DOMAIN runs[r].cache

\* run r takes the page file from disk: the hash key is not in its
\* concat_cache and no concatenation is made
ReusesPageFile(r) ==
    /\ runs[r].pc = "item"
    /\ runs[r].idx <= Len(WorkItemsOf[runs[r].doc])
    /\ CurrentItem(runs[r]).kind = "page"
    /\ Len(runs'[r].out) > Len(runs[r].out)
    /\ PageKey(runs[r].seg_paths) \notin DOMAIN runs[r].concat_cache

\* C38 (as stated): cache integrity: whenever annotate_audio finds a file at
\* a key's path and reuses it without synthesis, that file was produced by a
\* synthesis that passed validation, or by a concatenation that completed
\* without error; this holds across runs, also after a run in which a
\* synthesis, a fallback or a concatenation failed.
ReusedFilesAreSound ==
    [][\A r \in Runs :
        /\ ReusesAudioFile(r) => CurrentKey(runs[r]) \in validated
        /\ ReusesPageFile(r) =>
              LET done == ConcatWaveFiles(FilesAt(runs[r].seg_paths), TRUE)
              IN /\ ~done.raised
                 /\ disk[FileName(PageKey(runs[r].seg_paths))] = done.file
      ]_vars

\* ---- the text-generation call of a run ----
\* C39 (as stated): one run of run_full_pipeline issues the text-generation
\* model call at most once, for every combination of start_stage, text,
\* description and text_obj, and the text segmented by segmentation_phase_1
\* is the surface returned by that single call.
TextGeneratedAtMostOnce ==
    /\ genCalls <= 1
    /\ \A i \in 1..Len(stage_calls) :
          (genCalls >= 1 /\ stage_calls[i].stage = "segmentation_phase_1" /\ stage_calls[i].ran)
              => stage_calls[i].input = [surface |-> GeneratedText.surface]

\* ---- the files of the concordance ----
\* the file compile_html writes for an entry of the concordance
EntryFile(entry) == ConcordanceFile(EncodeLemmaForFilename(entry.lemma))

\* C40: two distinct lemma values of one document are never written to the
\* same concordance file: the slugs of different lemmas spell different file
\* names, and every concordance file written so far holds the page of its
\* own lemma, so no page has been overwritten by the page of another lemma.
DistinctLemmasDistinctFiles ==
    /\ \A i, j \in 1..Len(concordance) :
          concordance[i].lemma # concordance[j].lemma =>
              EntryFile(concordance[i]) # EntryFile(concordance[j])
    /\ \A i \in 1..c_idx :
          /\ EntryFile(concordance[i]) \in DOMAIN hFiles
          /\ hFiles[EntryFile(concordance[i])] = RenderConcordancePage(concordance[i])

\* the lemmas '"' and '%22' of one document: both pages are written, to
\* concordance_%22.html and concordance_%2522.html
DistinctLemmasDistinctFilesWitness ==
    /\ c_idx = 2
    /\ {concordance[i].lemma : i \in 1..2} = {<<"\"">>, <<"%", "2", "2">>}
    /\ \E path \in DOMAIN hFiles :
          path[Len(path)] = <<"concordance_", "%", "2", "5", "2", "2", ".html">>
    /\ \E path \in DOMAIN hFiles :
          path[Len(path)] = <<"concordance_", "%", "2", "2", ".html">>

====
